---- MODULE Spec2Model ----
(***************************************************************************)
(* Model of MethodComparator (hotspot/src/share/vm/prims/                  *)
(* methodComparator.cpp): the exact (EMCP) and the fragment-tolerant       *)
(* (switchable) comparison of two method bodies, the per-opcode argument   *)
(* rules of args_same, and the static fields the two entry points share;   *)
(* and of ClassLoaderExt (src/hotspot/share/classfile/classLoaderExt.cpp): *)
(* the cache of classpath entries, the reading of a JAR manifest and the   *)
(* flags that record where the archived classes come from.                 *)
(*                                                                         *)
(* A thread is a caller that performs a script of comparison calls, one    *)
(* after the other.  Every call is a small state machine whose positions   *)
(* are the loops of the C++ code.  BytecodeStream, constantPoolOop and     *)
(* BciMap are not part of the sources at hand; they are modelled from the  *)
(* design document.                                                        *)
(***************************************************************************)
EXTENDS Integers, Sequences, FiniteSets, TLC

VARIABLES call, statics, ext, cached_path_entries, vm, mf

\* the state of MethodComparator and the state of ClassLoaderExt
cmpvars == <<call, statics>>
extvars == <<ext, cached_path_entries, vm, mf>>
vars == <<call, statics, ext, cached_path_entries, vm, mf>>

(***************************************************************************)
(* Bounds of the model.                                                    *)
(***************************************************************************)
MaxOldLen == 2      \* instructions in an old method body (scan inputs)
MaxNewLen == 3      \* instructions in a new method body (scan inputs)
MaxArgLen == 2      \* instructions in a body of the constant-pool inputs
MaxConcLen == 2     \* instructions in a new body of the concurrent inputs
MaxFragOldLen == 2  \* instructions in an old body of the fragment inputs
MaxFragNewLen == 4  \* instructions in a new body of the fragment inputs
MaxJumpOldLen == 2  \* instructions in an old body of the switch inputs
MaxJumpNewLen == 3  \* instructions in a new body of the switch inputs
MaxLiveOldLen == 2  \* instructions in an old body of the termination inputs
MaxLiveNewLen == 3  \* instructions in a new body of the termination inputs
MaxBackOldLen == 3  \* instructions in an old body of the backward-branch inputs
MaxBackNewLen == 4  \* instructions in a new body of the backward-branch inputs
MaxSeqLen == 2      \* instructions in a body of the exact call after another call
MaxEntries == 4     \* ClassPathEntry objects the dump run can create
MaxPieces == 5      \* pieces (a character or the Class-Path tag) of a manifest

Threads == {1, 2}

(***************************************************************************)
(* Generic helpers.                                                        *)
(***************************************************************************)
SeqsUpTo(S, lo, hi) == UNION {[1..n -> S] : n \in lo..hi}

(***************************************************************************)
(* Instructions.  a, b are the operands (constant-pool index, local slot,  *)
(* immediate, branch offset, increment), tbl the table of a switch.        *)
(***************************************************************************)
Ins(op) == [op |-> op, wide |-> FALSE, a |-> 0, b |-> 0, tbl |-> <<>>]
Op1(op, x) == [op |-> op, wide |-> FALSE, a |-> x, b |-> 0, tbl |-> <<>>]
Op2(op, x, y) == [op |-> op, wide |-> FALSE, a |-> x, b |-> y, tbl |-> <<>>]
Wide(ins) == [ins EXCEPT !.wide = TRUE]
\* tableswitch: default offset, low, one jump offset per slot
TableSwitch(dflt, lo, ofs) ==
  [op |-> "tableswitch", wide |-> FALSE, a |-> dflt, b |-> lo, tbl |-> ofs]
\* lookupswitch: default offset, the <<match, jump offset>> pairs
LookupSwitch(dflt, pairs) ==
  [op |-> "lookupswitch", wide |-> FALSE, a |-> dflt, b |-> 0, tbl |-> pairs]

KlassOps == {"new", "anewarray", "multianewarray", "checkcast", "instanceof"}
MemberOps == {"getstatic", "putstatic", "getfield", "putfield",
              "invokevirtual", "invokespecial", "invokestatic", "invokeinterface"}
LocalOps == {"aload", "astore", "dload", "dstore", "fload", "fstore",
             "iload", "istore", "lload", "lstore", "ret"}
BranchOps == {"goto", "if_acmpeq", "if_acmpne", "if_icmpeq", "if_icmpne",
              "if_icmplt", "if_icmpge", "if_icmpgt", "if_icmple", "ifeq", "ifne",
              "iflt", "ifge", "ifgt", "ifle", "ifnonnull", "ifnull", "jsr"}
WideBranchOps == {"goto_w", "jsr_w"}
SwitchOps == {"lookupswitch", "tableswitch"}

\* the end-of-stream code returned by BytecodeStream::next (a negative value)
Illegal == "_illegal"

\* padding of a switch whose opcode is at bci: operands are 4-byte aligned
SwitchPad(bci) == (4 - ((bci + 1) % 4)) % 4

\* length in bytes of an instruction that starts at bci (JVMS chapter 6)
InstrLen(ins, bci) ==
  CASE ins.op \in LocalOps -> IF ins.wide THEN 4 ELSE 2
    [] ins.op = "iinc" -> IF ins.wide THEN 6 ELSE 3
    [] ins.op \in {"bipush", "ldc"} -> 2
    [] ins.op \in {"sipush", "ldc_w", "ldc2_w"} -> 3
    [] ins.op \in BranchOps -> 3
    [] ins.op \in WideBranchOps -> 5
    [] ins.op = "multianewarray" -> 4
    [] ins.op = "invokeinterface" -> 5
    [] ins.op \in KlassOps \cup MemberOps -> 3
    [] ins.op = "lookupswitch" -> 1 + SwitchPad(bci) + 8 + 8 * Len(ins.tbl)
    [] ins.op = "tableswitch" -> 1 + SwitchPad(bci) + 12 + 4 * Len(ins.tbl)
    [] OTHER -> 1

\* bci of the k-th instruction of a code sequence (k = Len + 1: the end)
RECURSIVE BciOf(_, _)
BciOf(code, k) ==
  IF k <= 1 THEN 0
  ELSE BciOf(code, k - 1) + InstrLen(code[k - 1], BciOf(code, k - 1))

code_size(m) == BciOf(m.code, Len(m.code) + 1)

\* index of the instruction that starts at bci, 0 when there is none
IndexAt(code, bci) ==
  IF \E k \in 1..Len(code) : BciOf(code, k) = bci
  THEN CHOOSE k \in 1..Len(code) : BciOf(code, k) = bci
  ELSE 0

(***************************************************************************)
(* Methods.                                                                *)
(***************************************************************************)
Method(ms, ml, sp, code, cp) ==
  [max_stack |-> ms, max_locals |-> ml, size_of_parameters |-> sp,
   code |-> code, constants |-> cp]

(***************************************************************************)
(* BytecodeStream: a cursor over the code of one method.                   *)
(***************************************************************************)
BytecodeStream(m) == [code |-> m.code, bci |-> 0, next_bci |-> 0]

is_last_bytecode(s) == s.next_bci >= BciOf(s.code, Len(s.code) + 1)

\* the instruction the cursor stands on (bcp() points at its first byte)
CurIns(s) ==
  IF IndexAt(s.code, s.bci) = 0 THEN Ins(Illegal) ELSE s.code[IndexAt(s.code, s.bci)]

\* BytecodeStream::next: the stream after the call; its code is StreamCode
StreamNext(s) ==
  IF is_last_bytecode(s)
  THEN [s EXCEPT !.bci = s.next_bci]
  ELSE [s EXCEPT !.bci = s.next_bci,
                 !.next_bci = s.next_bci
                     + InstrLen(s.code[IndexAt(s.code, s.next_bci)], s.next_bci)]

\* the code BytecodeStream::next returns when it is called on s
NextCode(s) ==
  IF is_last_bytecode(s) THEN Illegal ELSE s.code[IndexAt(s.code, s.next_bci)].op

(***************************************************************************)
(* Constant pools: a sequence of entries.  Symbols (class names, member    *)
(* names, descriptors, string contents) are interned, so a symbol is a     *)
(* number and two symbols are the same exactly when the numbers are equal. *)
(* A float entry holds the 32 bits of the value.                           *)
(***************************************************************************)
CpEntry(tag, x, y, z) == [tag |-> tag, a |-> x, b |-> y, c |-> z]

tag_at(cp, i) == cp[i].tag
klass_at_noresolve(cp, i) == cp[i].a
klass_ref_at_noresolve(cp, i) == cp[i].a
name_ref_at(cp, i) == cp[i].b
signature_ref_at(cp, i) == cp[i].c
int_at(cp, i) == cp[i].a
float_at(cp, i) == cp[i].a
\* 64-bit entries: a is the high word, b the low word
long_at(cp, i) == <<cp[i].a, cp[i].b>>
double_at(cp, i) == <<cp[i].a, cp[i].b>>
string_at_noresolve(cp, i) == cp[i].a

\* IEEE 754 values by bit pattern, a pattern being a signed 32-bit word
FloatNaN == 2143289344       \* 0x7fc00000
FloatPosZero == 0            \* 0x00000000
FloatNegZero == (-2147483647) - 1   \* 0x80000000
FloatOne == 1065353216       \* 0x3f800000
\* the word without its sign bit
Magnitude(bits) == IF bits < 0 THEN (bits + 2147483647) + 1 ELSE bits
FloatIsNaN(bits) == Magnitude(bits) > 2139095040
FloatIsZero(bits) == Magnitude(bits) = 0
\* the C++ operator != on two jfloat values
FloatNotEqual(x, y) ==
  \/ FloatIsNaN(x)
  \/ FloatIsNaN(y)
  \/ (x # y /\ ~(FloatIsZero(x) /\ FloatIsZero(y)))
DoubleIsNaN(d) ==
  \/ Magnitude(d[1]) > 2146435072
  \/ (Magnitude(d[1]) = 2146435072 /\ d[2] # 0)
DoubleIsZero(d) == Magnitude(d[1]) = 0 /\ d[2] = 0
\* the C++ operator != on two jdouble values
DoubleNotEqual(x, y) ==
  \/ DoubleIsNaN(x)
  \/ DoubleIsNaN(y)
  \/ (x # y /\ ~(DoubleIsZero(x) /\ DoubleIsZero(y)))

\* unsigned views of signed operands, as the stream accessors return them
U1(x) == x % 256
U2(x) == x % 65536

(***************************************************************************)
(* BciMap: the position map of a switchable comparison, a list of         *)
(* fragments (old_bci, new_st_bci, new_end_bci).                           *)
(***************************************************************************)
EmptyBciMap == <<>>

store_fragment_location(map, old_bci, new_st_bci, new_end_bci) ==
  Append(map, [old_bci |-> old_bci, new_st_bci |-> new_st_bci,
               new_end_bci |-> new_end_bci])

\* translate: old_bci plus the inserted length of every fragment whose
\* divergence point precedes old_bci
RECURSIVE new_bci_for_old(_, _)
new_bci_for_old(map, old_bci) ==
  IF map = <<>> THEN old_bci
  ELSE new_bci_for_old(Tail(map), old_bci)
         + (IF Head(map).old_bci < old_bci
            THEN Head(map).new_end_bci - Head(map).new_st_bci ELSE 0)

old_and_new_locations_same(map, old_dest_bci, new_dest_bci) ==
  new_bci_for_old(map, old_dest_bci) = new_dest_bci

(***************************************************************************)
(* args_same.  Its outcome is the returned boolean and the integers it     *)
(* appended to the pending forward-jump list on the way (appends made      *)
(* before a "return false" stay in the list).  so and sn are the streams   *)
(* the static fields _s_old and _s_new point to, ocp and ncp the pools     *)
(* behind _old_cp and _new_cp, sw the flag _switchable_test and map the    *)
(* BciMap behind _bci_map.                                                 *)
(***************************************************************************)
Same(app) == [ret |-> TRUE, app |-> app]
Differ(app) == [ret |-> FALSE, app |-> app]

\* new, anewarray, multianewarray, checkcast, instanceof
args_same_klass(c_old, io, in, ocp, ncp) ==
  IF klass_at_noresolve(ocp, U2(io.a)) # klass_at_noresolve(ncp, U2(in.a))
  THEN Differ(<<>>)
  ELSE IF c_old = "multianewarray" /\ io.b # in.b
       THEN Differ(<<>>)
       ELSE Same(<<>>)

\* getstatic .. invokeinterface
args_same_member(io, in, ocp, ncp) ==
  IF \/ klass_ref_at_noresolve(ocp, U2(io.a)) # klass_ref_at_noresolve(ncp, U2(in.a))
     \/ name_ref_at(ocp, U2(io.a)) # name_ref_at(ncp, U2(in.a))
     \/ signature_ref_at(ocp, U2(io.a)) # signature_ref_at(ncp, U2(in.a))
  THEN Differ(<<>>)
  ELSE Same(<<>>)

\* ldc, ldc_w that also wants the two raw constant-pool indices to be equal
args_same_ldc_raw_index(io, in, ocp, ncp) ==
  IF io.a # in.a \/ tag_at(ocp, io.a) # tag_at(ncp, in.a)
  THEN Differ(<<>>)
  ELSE IF tag_at(ocp, io.a) = "Float"
       THEN IF FloatNotEqual(float_at(ocp, io.a), float_at(ncp, in.a))
            THEN Differ(<<>>) ELSE Same(<<>>)
       ELSE IF ocp[io.a] # ncp[in.a] THEN Differ(<<>>) ELSE Same(<<>>)

\* ldc, ldc_w
args_same_ldc(io, in, ocp, ncp) ==
  LET cpi_old == io.a
      cpi_new == in.a
      tag_old == tag_at(ocp, cpi_old)
      tag_new == tag_at(ncp, cpi_new)
  IN  IF tag_old \in {"Integer", "Float"}
      THEN IF tag_old # tag_new
           THEN Differ(<<>>)
           ELSE IF tag_old = "Integer"
                THEN IF int_at(ocp, cpi_old) # int_at(ncp, cpi_new)
                     THEN Differ(<<>>) ELSE Same(<<>>)
                ELSE IF FloatNotEqual(float_at(ocp, cpi_old), float_at(ncp, cpi_new))
                     THEN Differ(<<>>) ELSE Same(<<>>)
      ELSE IF tag_old \in {"String", "UnresolvedString"}
           THEN IF tag_new \notin {"UnresolvedString", "String"}
                THEN Differ(<<>>)
                ELSE IF string_at_noresolve(ocp, cpi_old) # string_at_noresolve(ncp, cpi_new)
                     THEN Differ(<<>>) ELSE Same(<<>>)
           ELSE IF tag_new \notin {"UnresolvedClass", "Class"}
                THEN Differ(<<>>)
                ELSE IF klass_at_noresolve(ocp, cpi_old) # klass_at_noresolve(ncp, cpi_new)
                     THEN Differ(<<>>) ELSE Same(<<>>)

\* ldc2_w
args_same_ldc2_w(io, in, ocp, ncp) ==
  LET cpi_old == U2(io.a)
      cpi_new == U2(in.a)
      tag_old == tag_at(ocp, cpi_old)
      tag_new == tag_at(ncp, cpi_new)
  IN  IF tag_old # tag_new
      THEN Differ(<<>>)
      ELSE IF tag_old = "Long"
           THEN IF long_at(ocp, cpi_old) # long_at(ncp, cpi_new)
                THEN Differ(<<>>) ELSE Same(<<>>)
           ELSE IF DoubleNotEqual(double_at(ocp, cpi_old), double_at(ncp, cpi_new))
                THEN Differ(<<>>) ELSE Same(<<>>)

\* aload .. ret
args_same_local(io, in) ==
  IF io.wide # in.wide
  THEN Differ(<<>>)
  ELSE IF io.a # in.a THEN Differ(<<>>) ELSE Same(<<>>)

\* goto, if*, jsr (16-bit offsets) and goto_w, jsr_w (32-bit offsets)
args_same_branch(old_ofs, new_ofs, old_bci, new_bci, sw, map) ==
  IF sw
  THEN LET old_dest == old_bci + old_ofs
           new_dest == new_bci + new_ofs
       IN  IF old_ofs < 0 /\ new_ofs < 0
           THEN IF ~old_and_new_locations_same(map, old_dest, new_dest)
                THEN Differ(<<>>) ELSE Same(<<>>)
           ELSE IF old_ofs > 0 /\ new_ofs > 0
                THEN Same(<<old_dest, new_dest>>)
                ELSE Differ(<<>>)
  ELSE IF old_ofs # new_ofs THEN Differ(<<>>) ELSE Same(<<>>)

\* iinc; the wide form is  wide iinc indexbyte1 indexbyte2 constbyte1
\* constbyte2  and the comparison reads the four bytes that follow the
\* wide prefix
IincOpcode == 132
args_same_iinc(io, in) ==
  IF io.wide # in.wide
  THEN Differ(<<>>)
  ELSE IF ~io.wide
       THEN IF U1(io.a) * 256 + U1(io.b) # U1(in.a) * 256 + U1(in.b)
            THEN Differ(<<>>) ELSE Same(<<>>)
       ELSE IF <<IincOpcode, U2(io.a), U2(io.b) \div 256>>
                 # <<IincOpcode, U2(in.a), U2(in.b) \div 256>>
            THEN Differ(<<>>) ELSE Same(<<>>)

\* the (match, offset) pairs of two lookupswitch tables from pair i on
RECURSIVE lookupswitch_pairs(_, _, _, _, _, _)
lookupswitch_pairs(io, in, i, old_bci, new_bci, app) ==
  IF i >= Len(io.tbl)
  THEN Same(app)
  ELSE IF io.tbl[i + 1][1] # in.tbl[i + 1][1]
       THEN Differ(app)
       ELSE lookupswitch_pairs(io, in, i + 1, old_bci, new_bci,
                               app \o <<old_bci + io.tbl[i + 1][2],
                                        new_bci + in.tbl[i + 1][2]>>)

\* the jump offsets of two tableswitch tables from slot i on
RECURSIVE tableswitch_slots(_, _, _, _, _, _)
tableswitch_slots(io, in, i, old_bci, new_bci, app) ==
  IF i >= Len(io.tbl)
  THEN Same(app)
  ELSE tableswitch_slots(io, in, i + 1, old_bci, new_bci,
                         app \o <<old_bci + io.tbl[i + 1], new_bci + in.tbl[i + 1]>>)

\* the switch rule without the comparison of the two high bounds
args_same_switch_no_high(c_old, io, in, old_bci, new_bci, sw) ==
  IF sw
  THEN LET dflt == <<old_bci + io.a, new_bci + in.a>>
       IN  IF c_old = "lookupswitch"
           THEN IF Len(io.tbl) # Len(in.tbl)
                THEN Differ(dflt)
                ELSE lookupswitch_pairs(io, in, 0, old_bci, new_bci, dflt)
           ELSE IF io.b # in.b
                THEN Differ(dflt)
                ELSE tableswitch_slots(io, in, 0, old_bci, new_bci, dflt)
  ELSE IF InstrLen(io, old_bci) # InstrLen(in, new_bci)
       THEN Differ(<<>>)
       ELSE IF <<io.op, io.a, io.b, io.tbl>> # <<in.op, in.a, in.b, in.tbl>>
            THEN Differ(<<>>) ELSE Same(<<>>)

\* lookupswitch (a: default, tbl: pairs) and tableswitch (a: default,
\* b: low, tbl: one offset per slot, so high = low + Len(tbl) - 1)
args_same_switch(c_old, io, in, old_bci, new_bci, sw) ==
  IF sw
  THEN LET dflt == <<old_bci + io.a, new_bci + in.a>>
       IN  IF c_old = "lookupswitch"
           THEN IF Len(io.tbl) # Len(in.tbl)
                THEN Differ(dflt)
                ELSE lookupswitch_pairs(io, in, 0, old_bci, new_bci, dflt)
           ELSE IF io.b # in.b
                THEN Differ(dflt)
                ELSE IF io.b + Len(io.tbl) - 1 # in.b + Len(in.tbl) - 1
                     THEN Differ(dflt)
                     ELSE tableswitch_slots(io, in, 0, old_bci, new_bci, dflt)
  ELSE IF InstrLen(io, old_bci) # InstrLen(in, new_bci)
       THEN Differ(<<>>)
       ELSE IF <<io.op, io.a, io.b, io.tbl>> # <<in.op, in.a, in.b, in.tbl>>
            THEN Differ(<<>>) ELSE Same(<<>>)

args_same(c_old, c_new, so, sn, ocp, ncp, sw, map) ==
  LET io == CurIns(so)
      in == CurIns(sn)
  IN  CASE c_old \in KlassOps -> args_same_klass(c_old, io, in, ocp, ncp)
        [] c_old \in MemberOps -> args_same_member(io, in, ocp, ncp)
        [] c_old \in {"ldc", "ldc_w"} -> args_same_ldc(io, in, ocp, ncp)
        [] c_old = "ldc2_w" -> args_same_ldc2_w(io, in, ocp, ncp)
        [] c_old = "bipush" -> IF U1(io.a) # U1(in.a) THEN Differ(<<>>) ELSE Same(<<>>)
        [] c_old = "sipush" -> IF U2(io.a) # U2(in.a) THEN Differ(<<>>) ELSE Same(<<>>)
        [] c_old \in LocalOps -> args_same_local(io, in)
        [] c_old \in BranchOps \cup WideBranchOps ->
             args_same_branch(io.a, in.a, so.bci, sn.bci, sw, map)
        [] c_old = "iinc" -> args_same_iinc(io, in)
        [] c_old \in SwitchOps -> args_same_switch(c_old, io, in, so.bci, sn.bci, sw)
        [] OTHER -> Same(<<>>)

\* check_stack_and_locals_size: 0 when the two frames have the same layout
check_stack_and_locals_size(old_method, new_method) ==
  IF old_method.max_stack # new_method.max_stack THEN 1
  ELSE IF old_method.max_locals # new_method.max_locals THEN 2
  ELSE IF old_method.size_of_parameters # new_method.size_of_parameters THEN 3
  ELSE 0

(***************************************************************************)
(* The state.  call[t] is thread t: the script of calls it performs, the   *)
(* index n of the call it is in (or about to make), its position pc, the   *)
(* locals of the running call (a returned call leaves them behind until    *)
(* the next call starts), the BciMap the caller passes by reference, and   *)
(* out, what the finished calls returned.  matched is the history of the   *)
(* running call: the (old bci, new bci) of every instruction pair it has   *)
(* accepted.  statics are the static fields                                *)
(* of MethodComparator; a pointer to a local of call n of thread t is the  *)
(* pair <<t, n>>.                                                          *)
(***************************************************************************)
NullPtr == <<0, 0>>
NoStream == [code |-> <<>>, bci |-> 0, next_bci |-> 0]

CallOf(mode, old_method, new_method) ==
  [mode |-> mode, old |-> old_method, new |-> new_method]

InitCall(script) ==
  [script |-> script, n |-> 1,
   pc |-> IF script = <<>> THEN "end" ELSE "call",
   s_old |-> NoStream, s_new |-> NoStream,
   c_old |-> Illegal, c_new |-> Illegal,
   old_bci |-> 0, new_st_bci |-> 0, i |-> 0,
   fwd_jmps |-> <<>>, bci_map |-> EmptyBciMap, matched |-> <<>>, out |-> <<>>]

InitStatics ==
  [s_old |-> NullPtr, s_new |-> NullPtr, old_cp |-> <<>>, new_cp |-> <<>>,
   bci_map |-> NullPtr, switchable_test |-> FALSE, fwd_jmps |-> NullPtr]

World == [call |-> call, statics |-> statics]
WithCall(W, t, c) == [W EXCEPT !.call[t] = c]

\* the frame of call ptr[2] of thread ptr[1] is on the stack
Live(W, ptr) ==
  /\ ptr # NullPtr
  /\ W.call[ptr[1]].n = ptr[2]
  /\ W.call[ptr[1]].pc \in {"loop", "search", "fwd"}

\* return from the running call with a verdict
Return(c, verdict) ==
  [c EXCEPT !.out = Append(@, [ret |-> verdict,
                               bci_map |-> IF c.script[c.n].mode = "switchable"
                                           THEN c.bci_map ELSE EmptyBciMap]),
            !.n = @ + 1,
            !.pc = IF c.n + 1 > Len(c.script) THEN "end" ELSE "call"]
ReturnW(W, t, verdict) == WithCall(W, t, Return(W.call[t], verdict))

\* the running call of thread t has accepted the pair its cursors stand on
Matched(W, t) ==
  WithCall(W, t, [W.call[t] EXCEPT
                    !.matched = Append(@, <<W.call[t].s_old.bci, W.call[t].s_new.bci>>)])

\* _fwd_jmps->append(..) of the integers app
Appended(W, app) ==
  IF app = <<>> \/ ~Live(W, W.statics.fwd_jmps)
  THEN W
  ELSE [W EXCEPT !.call[W.statics.fwd_jmps[1]].fwd_jmps = @ \o app]

\* The outcomes of args_same(c_old, c_new) in world W.  The operands are
\* read through the static fields; when a field points to a frame that is
\* gone, or to a stream that does not stand on such an instruction, what is
\* read is unspecified and either verdict can come out.
OperandOps ==
  KlassOps \cup MemberOps \cup LocalOps \cup BranchOps \cup WideBranchOps
    \cup SwitchOps \cup {"ldc", "ldc_w", "ldc2_w", "bipush", "sipush", "iinc"}
ArgsSameOutcomes(W, c_old, c_new) ==
  LET st == W.statics
      usesJumps == st.switchable_test /\ c_old \in BranchOps \cup WideBranchOps \cup SwitchOps
      streamsOK == /\ Live(W, st.s_old)
                   /\ Live(W, st.s_new)
                   /\ CurIns(W.call[st.s_old[1]].s_old).op = c_old
                   /\ CurIns(W.call[st.s_new[1]].s_new).op = c_new
      jumpsOK == Live(W, st.fwd_jmps) /\ Live(W, st.bci_map)
  IN  IF c_old \notin OperandOps
      THEN {Same(<<>>)}
      ELSE IF streamsOK /\ (usesJumps => jumpsOK)
           THEN {args_same(c_old, c_new,
                           W.call[st.s_old[1]].s_old, W.call[st.s_new[1]].s_new,
                           st.old_cp, st.new_cp, st.switchable_test,
                           IF usesJumps THEN W.call[st.bci_map[1]].bci_map
                           ELSE EmptyBciMap)}
           ELSE {Same(<<>>), Differ(<<>>)}

(***************************************************************************)
(* methods_EMCP.                                                           *)
(***************************************************************************)
\* line 37: the code sizes differ
EMCP_code_size_differs(old_method, new_method) ==
  code_size(old_method) # code_size(new_method)

\* line 39: the frames are not comparable
EMCP_non_comparable(old_method, new_method) ==
  check_stack_and_locals_size(old_method, new_method) # 0

\* line 57 without the comparison of the two opcodes
EMCP_opcode_mismatch_end_only(c_old, c_new) == c_new = Illegal

\* line 57: the new stream has ended or the opcodes differ
EMCP_opcode_mismatch(c_old, c_new) == c_new = Illegal \/ c_old # c_new

\* line 53 with the flag of the switchable comparison
EMCP_switchable_test_on == TRUE

\* line 53: _switchable_test = false
EMCP_switchable_test == FALSE

\* lines 37-54: the checks and the set-up of the static fields
EMCP_entry(W, t) ==
  LET c == W.call[t]
      d == c.script[c.n]
  IN  IF EMCP_code_size_differs(d.old, d.new)
      THEN {ReturnW(W, t, FALSE)}
      ELSE IF EMCP_non_comparable(d.old, d.new)
      THEN {ReturnW(W, t, FALSE)}
      ELSE {[call |-> [W.call EXCEPT ![t] =
                         [c EXCEPT !.pc = "loop",
                                   !.s_old = BytecodeStream(d.old),
                                   !.s_new = BytecodeStream(d.new),
                                   !.c_old = Illegal, !.c_new = Illegal,
                                   !.old_bci = 0, !.new_st_bci = 0, !.i = 0,
                                   !.fwd_jmps = <<>>, !.bci_map = EmptyBciMap,
                                   !.matched = <<>>]],
             statics |-> [W.statics EXCEPT !.old_cp = d.old.constants,
                                           !.new_cp = d.new.constants,
                                           !.s_old = <<t, c.n>>,
                                           !.s_new = <<t, c.n>>,
                                           !.switchable_test = EMCP_switchable_test]]}

\* lines 56-63: one iteration of the lockstep loop
EMCP_loop(W, t) ==
  LET c == W.call[t]
      c_old == NextCode(c.s_old)
      c1 == [c EXCEPT !.s_old = StreamNext(@), !.c_old = c_old]
  IN  IF c_old = Illegal
      THEN {WithCall(W, t, Return(c1, TRUE))}
      ELSE LET c_new == NextCode(c.s_new)
               c2 == [c1 EXCEPT !.s_new = StreamNext(@), !.c_new = c_new]
               W2 == WithCall(W, t, c2)
           IN  IF EMCP_opcode_mismatch(c_old, c_new)
               THEN {ReturnW(W2, t, FALSE)}
               ELSE {IF r.ret THEN Matched(Appended(W2, r.app), t)
                              ELSE ReturnW(Appended(W2, r.app), t, FALSE) :
                       r \in ArgsSameOutcomes(W2, c_old, c_new)}

(***************************************************************************)
(* methods_switchable.                                                     *)
(***************************************************************************)
\* the comparison of line 69 with its operands exchanged
switchable_code_deleted_flipped(old_method, new_method) ==
  code_size(old_method) < code_size(new_method)

\* line 69: something has been deleted in the new method
switchable_code_deleted(old_method, new_method) ==
  code_size(old_method) > code_size(new_method)

\* line 73: if (! check_stack_and_locals_size(old_method, new_method))
switchable_non_comparable(old_method, new_method) ==
  ~(check_stack_and_locals_size(old_method, new_method) # 0)

\* line 105 with the two new-stream arguments exchanged
resync_fragment_swapped(map, old_bci, new_st_bci, new_end_bci) ==
  store_fragment_location(map, old_bci, new_end_bci, new_st_bci)

\* line 105 with the start of the old method as the divergence point
resync_fragment_at_start(map, old_bci, new_st_bci, new_end_bci) ==
  store_fragment_location(map, 0, new_st_bci, new_end_bci)

\* line 105: the fragment stored for a resynchronisation
resync_fragment(map, old_bci, new_st_bci, new_end_bci) ==
  store_fragment_location(map, old_bci, new_st_bci, new_end_bci)

\* the bound of line 110 with the last pair left out
fwd_jmps_pairs_but_last(fwd_jmps) == Len(fwd_jmps) \div 2 - 1

\* line 110: the number of pending pairs
fwd_jmps_pairs(fwd_jmps) == Len(fwd_jmps) \div 2

\* line 111: pending pair i misses
fwd_jmp_miss(map, fwd_jmps, i) ==
  ~old_and_new_locations_same(map, fwd_jmps[i * 2 + 1], fwd_jmps[i * 2 + 2])

\* line 89: the new stream has ended while old instructions remain
switchable_new_ended(c_new) == c_new = Illegal

\* a forward search that never ends
resync_continues_always(c_new) == TRUE

\* line 101: while (c_new >= 0)
resync_continues(c_new) == c_new # Illegal

\* a forward search whose failure is not noticed
resync_failed_never(found_match) == FALSE

\* line 102: if (! found_match)
resync_failed(found_match) == ~found_match

\* lines 69-86: the checks and the set-up of the static fields
switchable_entry(W, t) ==
  LET c == W.call[t]
      d == c.script[c.n]
      W0 == WithCall(W, t, [c EXCEPT !.bci_map = EmptyBciMap])
  IN  IF switchable_code_deleted(d.old, d.new)
      THEN {ReturnW(W0, t, FALSE)}
      ELSE IF switchable_non_comparable(d.old, d.new)
      THEN {ReturnW(W0, t, FALSE)}
      ELSE {[call |-> [W.call EXCEPT ![t] =
                         [c EXCEPT !.pc = "loop",
                                   !.s_old = BytecodeStream(d.old),
                                   !.s_new = BytecodeStream(d.new),
                                   !.c_old = Illegal, !.c_new = Illegal,
                                   !.old_bci = 0, !.new_st_bci = 0, !.i = 0,
                                   !.fwd_jmps = <<>>, !.bci_map = EmptyBciMap,
                                   !.matched = <<>>]],
             statics |-> [W.statics EXCEPT !.old_cp = d.old.constants,
                                           !.new_cp = d.new.constants,
                                           !.s_old = <<t, c.n>>,
                                           !.s_new = <<t, c.n>>,
                                           !.bci_map = <<t, c.n>>,
                                           !.switchable_test = TRUE,
                                           !.fwd_jmps = <<t, c.n>>]]}

\* lines 88-94: one iteration of the lockstep loop, up to the start of a
\* forward search
switchable_loop(W, t) ==
  LET c == W.call[t]
      c_old == NextCode(c.s_old)
      c1 == [c EXCEPT !.s_old = StreamNext(@), !.c_old = c_old]
  IN  IF c_old = Illegal
      THEN {WithCall(W, t, [c1 EXCEPT !.pc = "fwd", !.i = 0])}
      ELSE LET c_new == NextCode(c.s_new)
               c2 == [c1 EXCEPT !.s_new = StreamNext(@), !.c_new = c_new]
               W2 == WithCall(W, t, c2)
               Search(V) == WithCall(V, t, [V.call[t] EXCEPT
                                              !.pc = "search",
                                              !.old_bci = c2.s_old.bci,
                                              !.new_st_bci = c2.s_new.bci])
           IN  IF switchable_new_ended(c_new)
               THEN {ReturnW(W2, t, FALSE)}
               ELSE IF c_old # c_new
               THEN {Search(W2)}
               ELSE {IF r.ret THEN Matched(Appended(W2, r.app), t)
                              ELSE Search(Appended(W2, r.app)) :
                       r \in ArgsSameOutcomes(W2, c_old, c_new)}

\* lines 95-105: one iteration of the forward search in the new stream
switchable_resync(W, t) ==
  LET c == W.call[t]
      c_new == NextCode(c.s_new)
      c1 == [c EXCEPT !.s_new = StreamNext(@), !.c_new = c_new]
      W1 == WithCall(W, t, c1)
      Stored(V) == WithCall(V, t, [V.call[t] EXCEPT
                                     !.pc = "loop",
                                     !.bci_map = resync_fragment(@, c.old_bci,
                                                    c.new_st_bci, c1.s_new.bci)])
      Found(V) == Matched(Stored(V), t)
      Missed(V) == IF resync_continues(c_new) THEN V
                   ELSE IF resync_failed(FALSE) THEN ReturnW(V, t, FALSE)
                   ELSE Stored(V)
  IN  IF c_new # c.c_old
      THEN {Missed(W1)}
      ELSE {IF r.ret THEN Found(Appended(W1, r.app))
                     ELSE Missed(Appended(W1, r.app)) :
              r \in ArgsSameOutcomes(W1, c.c_old, c_new)}

\* lines 110-120: one iteration of the test of the forward jumps
switchable_fwd_jmps(W, t) ==
  LET c == W.call[t]
  IN  IF c.i < fwd_jmps_pairs(c.fwd_jmps)
      THEN IF fwd_jmp_miss(c.bci_map, c.fwd_jmps, c.i)
           THEN {ReturnW(W, t, FALSE)}
           ELSE {WithCall(W, t, [c EXCEPT !.i = @ + 1])}
      ELSE {ReturnW(W, t, TRUE)}

(***************************************************************************)
(* ClassLoaderExt: the state.  ext holds its static fields, and            *)
(* cached_path_entries is the file-static cache of classpath entries (an   *)
(* array that does not exist yet is the empty sequence).  vm is the        *)
(* virtual machine around it: the options DumpSharedSpaces and UseAppCDS,  *)
(* the phase of the run, the SharedPathsMiscInfo, the number of            *)
(* ClassPathEntry objects created so far, last, the arguments and the      *)
(* result of the call made last, and returned, the entries the cache       *)
(* lookups have returned so far.  mf is a call of read_manifest or of      *)
(* get_class_path_attr: its buffer and its locals, input, the manifest as  *)
(* it is in the JAR, and text, the manifest as read_manifest returned it.  *)
(***************************************************************************)
\* classLoaderExt.hpp: max_classpath_index = 0x7fff
max_classpath_index == 32767

NULL == 0

InitExt ==
  [app_paths_start_index |-> max_classpath_index,
   has_app_classes |-> FALSE,
   has_platform_classes |-> FALSE]

\* SharedPathsMiscInfo: the recorded paths, the offset at which the paths of
\* the app loader start, and whether pop_app has been called
NoMiscInfo == [paths |-> <<>>, app_offset |-> 0, popped |-> FALSE]

NoCall ==
  [op |-> "none", path |-> "", classpath_index |-> 0, stream |-> FALSE,
   signed |-> FALSE, loader |-> "", ret |-> NULL, ok |-> FALSE]

VmOf(dump, appcds, phase) ==
  [DumpSharedSpaces |-> dump, UseAppCDS |-> appcds, phase |-> phase,
   misc_info |-> NoMiscInfo, entries_created |-> 0, last |-> NoCall,
   returned |-> {}]

NoManifest ==
  [pc |-> "idle", manifest |-> <<>>, has_manifest |-> FALSE, clean_text |-> FALSE,
   manifest_size |-> 0, line_start |-> 0, found |-> NULL, ret |-> NULL,
   input |-> <<>>, text |-> <<>>]

\* no ClassLoaderExt code runs
ExtIdle ==
  /\ ext = InitExt
  /\ cached_path_entries = <<>>
  /\ vm = VmOf(FALSE, FALSE, "idle")
  /\ mf = NoManifest

(***************************************************************************)
(* Actions.                                                                *)
(***************************************************************************)
Becomes(Ws) ==
  /\ \E W \in Ws : call' = W.call /\ statics' = W.statics
  /\ UNCHANGED extvars

Mode(t) == call[t].script[call[t].n].mode

methods_EMCP(t) ==
  /\ call[t].pc = "call" /\ Mode(t) = "EMCP"
  /\ Becomes(EMCP_entry(World, t))

methods_EMCP_loop(t) ==
  /\ call[t].pc = "loop" /\ Mode(t) = "EMCP"
  /\ Becomes(EMCP_loop(World, t))

methods_switchable(t) ==
  /\ call[t].pc = "call" /\ Mode(t) = "switchable"
  /\ Becomes(switchable_entry(World, t))

methods_switchable_loop(t) ==
  /\ call[t].pc = "loop" /\ Mode(t) = "switchable"
  /\ Becomes(switchable_loop(World, t))

methods_switchable_resync(t) ==
  /\ call[t].pc = "search"
  /\ Becomes(switchable_resync(World, t))

methods_switchable_fwd_jmps(t) ==
  /\ call[t].pc = "fwd"
  /\ Becomes(switchable_fwd_jmps(World, t))

(***************************************************************************)
(* Inputs.  Method bodies are well formed, as the verifier leaves them:    *)
(* every branch lands on the first byte of an instruction of the body.     *)
(***************************************************************************)
WellFormed(code) ==
  \A k \in 1..Len(code) :
    code[k].op \in BranchOps \cup WideBranchOps
      => IndexAt(code, BciOf(code, k) + code[k].a) # 0

\* the jump offsets of a branch or a switch
JumpOffsets(ins) ==
  CASE ins.op \in BranchOps \cup WideBranchOps -> {ins.a}
    [] ins.op = "tableswitch" -> {ins.a} \cup {ins.tbl[i] : i \in 1..Len(ins.tbl)}
    [] ins.op = "lookupswitch" -> {ins.a} \cup {ins.tbl[i][2] : i \in 1..Len(ins.tbl)}
    [] OTHER -> {}

WellFormedJumps(code) ==
  \A k \in 1..Len(code) : \A ofs \in JumpOffsets(code[k]) :
    IndexAt(code, BciOf(code, k) + ofs) # 0

\* (max_stack, max_locals, size_of_parameters) of the old method and the
\* ones the new method is drawn from
OldSummary == <<2, 1, 1>>
NewSummaries == {<<2, 1, 1>>, <<3, 1, 1>>, <<2, 2, 1>>, <<2, 1, 0>>}
ScanSummaries == {<<2, 1, 1>>, <<3, 1, 1>>}

MethodOf(summary, code, cp) == Method(summary[1], summary[2], summary[3], code, cp)

\* one caller, thread 1, that performs the given script
OneCaller(script) ==
  /\ call = [t \in Threads |-> IF t = 1 THEN InitCall(script) ELSE InitCall(<<>>)]
  /\ statics = InitStatics
  /\ ExtIdle

(***************************************************************************)
(* Spec: a redefinition asks for the exact comparison of a pair and then   *)
(* for the switchable comparison of the same pair.                         *)
(***************************************************************************)
ScanInstrs ==
  {Ins("iconst_1"), Ins("nop"), Ins("ireturn"),
   Op1("goto", 0), Op1("goto", 3), Op1("goto", 4), Op1("goto", -1)}

ScanOldBodies == {c \in SeqsUpTo(ScanInstrs, 1, MaxOldLen) : WellFormed(c)}
ScanNewBodies == {c \in SeqsUpTo(ScanInstrs, 1, MaxNewLen) : WellFormed(c)}

Init ==
  \E oc \in ScanOldBodies, nc \in ScanNewBodies, sm \in ScanSummaries :
    /\ OneCaller(<<CallOf("EMCP", MethodOf(OldSummary, oc, <<>>), MethodOf(sm, nc, <<>>)),
                   CallOf("switchable", MethodOf(OldSummary, oc, <<>>),
                          MethodOf(sm, nc, <<>>))>>)

Next ==
  \E t \in Threads :
    \/ methods_EMCP(t)
    \/ methods_EMCP_loop(t)
    \/ methods_switchable(t)
    \/ methods_switchable_loop(t)
    \/ methods_switchable_resync(t)
    \/ methods_switchable_fwd_jmps(t)

Spec == Init /\ [][Next]_vars

(***************************************************************************)
(* SpecArgs: exact comparisons of bodies that refer to constant-pool       *)
(* entries.  The caller compares a pair and then compares the same pair    *)
(* again after both pools have been laid out in another order.             *)
(***************************************************************************)
\* the int 5, the float NaN, the string with symbol 1 in its resolved and in
\* its unresolved form, and the field (class 2, name 3, descriptor 4)
ArgPool ==
  <<CpEntry("Integer", 5, 0, 0),
    CpEntry("Float", FloatNaN, 0, 0),
    CpEntry("String", 1, 0, 0),
    CpEntry("UnresolvedString", 1, 0, 0),
    CpEntry("Fieldref", 2, 3, 4)>>

LoadableTags ==
  {"Integer", "Float", "String", "UnresolvedString", "Class", "UnresolvedClass"}

ArgInstrs ==
  {Op1("ldc", i) : i \in {j \in 1..Len(ArgPool) : ArgPool[j].tag \in LoadableTags}}
    \cup {Op1("getfield", i) : i \in {j \in 1..Len(ArgPool) : ArgPool[j].tag = "Fieldref"}}

\* the orders the pools are laid out in the second time: entry i moves to
\* index perm[i]
PoolPerms == {<<2, 3, 4, 5, 1>>, <<5, 4, 3, 2, 1>>}

RefersToPool(ins) ==
  ins.op \in KlassOps \cup MemberOps \cup {"ldc", "ldc_w", "ldc2_w"}

\* the method with its pool laid out by perm and its operands re-indexed
Permuted(m, perm) ==
  [m EXCEPT
     !.constants = [i \in 1..Len(m.constants) |->
                      m.constants[CHOOSE j \in 1..Len(m.constants) : perm[j] = i]],
     !.code = [k \in 1..Len(m.code) |->
                 IF RefersToPool(m.code[k])
                 THEN [m.code[k] EXCEPT !.a = perm[m.code[k].a]]
                 ELSE m.code[k]]]

InitArgs ==
  \E oc \in SeqsUpTo(ArgInstrs, 1, MaxArgLen),
     nc \in SeqsUpTo(ArgInstrs, 1, MaxArgLen),
     po \in PoolPerms, pn \in PoolPerms :
    OneCaller(<<CallOf("EMCP", MethodOf(OldSummary, oc, ArgPool),
                       MethodOf(OldSummary, nc, ArgPool)),
                CallOf("EMCP", Permuted(MethodOf(OldSummary, oc, ArgPool), po),
                       Permuted(MethodOf(OldSummary, nc, ArgPool), pn))>>)

NextArgs ==
  \E t \in Threads :
    \/ methods_EMCP(t)
    \/ methods_EMCP_loop(t)

SpecArgs == InitArgs /\ [][NextArgs]_vars

(***************************************************************************)
(* SpecConc: two threads, each in one comparison call of its own pair,     *)
(* their steps interleaved.  The static fields are the only state the two  *)
(* calls have in common.                                                   *)
(***************************************************************************)
ConcInstrs == {Op1("bipush", 1), Op1("bipush", 2)}
ConcCalls ==
  {CallOf(mode, MethodOf(OldSummary, oc, <<>>), MethodOf(sm, nc, <<>>)) :
     mode \in {"EMCP", "switchable"},
     oc \in SeqsUpTo(ConcInstrs, 1, 1),
     nc \in SeqsUpTo(ConcInstrs, 1, MaxConcLen),
     sm \in NewSummaries}

InitConc ==
  \E d1 \in ConcCalls, d2 \in ConcCalls :
    /\ call = [t \in Threads |-> IF t = 1 THEN InitCall(<<d1>>) ELSE InitCall(<<d2>>)]
    /\ statics = InitStatics
    /\ ExtIdle

SpecConc == InitConc /\ [][Next]_vars

\* the steps thread t can take in world W
StepsOf(W, t) ==
  LET c == W.call[t]
  IN  CASE c.pc = "call" ->
             IF c.script[c.n].mode = "EMCP"
             THEN EMCP_entry(W, t) ELSE switchable_entry(W, t)
        [] c.pc = "loop" ->
             IF c.script[c.n].mode = "EMCP"
             THEN EMCP_loop(W, t) ELSE switchable_loop(W, t)
        [] c.pc = "search" -> switchable_resync(W, t)
        [] c.pc = "fwd" -> switchable_fwd_jmps(W, t)
        [] OTHER -> {W}

\* the world in which thread 1 has performed its script with no other
\* thread around
RECURSIVE RunToEnd(_)
RunToEnd(W) ==
  IF W.call[1].pc = "end" THEN W
  ELSE RunToEnd(CHOOSE V \in StepsOf(W, 1) : TRUE)

\* what the call d returns when it runs alone
Alone(d) ==
  RunToEnd([call |-> [t \in Threads |-> IF t = 1 THEN InitCall(<<d>>)
                                        ELSE InitCall(<<>>)],
            statics |-> InitStatics]).call[1].out[1]

(***************************************************************************)
(* SpecFrag: one call, exact or switchable, on bodies long enough for two  *)
(* fragments.                                                              *)
(***************************************************************************)
FragInstrs == {Ins("iconst_1"), Ins("ireturn"), Op1("goto", 3)}

FragOldBodies == {c \in SeqsUpTo(FragInstrs, 1, MaxFragOldLen) : WellFormed(c)}
FragNewBodies ==
  {c \in SeqsUpTo(FragInstrs, 1, MaxFragNewLen) : WellFormed(c)}
    \cup {<<Ins("iconst_2"), Ins("ireturn")>>}

InitFrag ==
  \E mode \in {"EMCP", "switchable"}, oc \in FragOldBodies, nc \in FragNewBodies,
     sm \in ScanSummaries :
    OneCaller(<<CallOf(mode, MethodOf(OldSummary, oc, <<>>), MethodOf(sm, nc, <<>>))>>)

SpecFrag == InitFrag /\ [][Next]_vars

(***************************************************************************)
(* SpecJumps: one call on bodies with tableswitch and lookupswitch         *)
(* instructions, exact on frames of the same sizes or switchable on frames *)
(* of different sizes.  The operands of a switch are 4-byte aligned, so    *)
(* the length of a switch depends on where it stands.                      *)
(***************************************************************************)
OldJumpInstrs ==
  {Ins("nop"),
   TableSwitch(0, 0, <<0>>),
   LookupSwitch(0, <<<<5, 0>>>>)}

NewJumpInstrs ==
  OldJumpInstrs \cup
  {TableSwitch(0, 1, <<0>>),
   TableSwitch(0, 0, <<0, 0>>),
   TableSwitch(-1, 0, <<-1>>),
   LookupSwitch(0, <<<<6, 0>>>>),
   LookupSwitch(0, <<>>)}

JumpOldBodies == {c \in SeqsUpTo(OldJumpInstrs, 1, MaxJumpOldLen) : WellFormedJumps(c)}
JumpNewBodies == {c \in SeqsUpTo(NewJumpInstrs, 1, MaxJumpNewLen) : WellFormedJumps(c)}

InitJumps ==
  \E oc \in JumpOldBodies, nc \in JumpNewBodies :
    \/ OneCaller(<<CallOf("EMCP", MethodOf(OldSummary, oc, <<>>),
                          MethodOf(OldSummary, nc, <<>>))>>)
    \/ OneCaller(<<CallOf("switchable", MethodOf(OldSummary, oc, <<>>),
                          MethodOf(<<3, 1, 1>>, nc, <<>>))>>)

SpecJumps == InitJumps /\ [][Next]_vars

(***************************************************************************)
(* SpecOperands: one call on two bodies of one instruction each, an ldc,   *)
(* an ldc_w or an iinc, exact on frames of the same sizes or switchable on *)
(* frames of different sizes.  Both bodies use the same constant pool.     *)
(* Symbol 1 is the name of a class and the content of a string.            *)
(***************************************************************************)
OperandPool ==
  <<CpEntry("Integer", 5, 0, 0),
    CpEntry("Integer", 6, 0, 0),
    CpEntry("Integer", 0, 0, 0),
    CpEntry("Float", FloatPosZero, 0, 0),
    CpEntry("Float", FloatNegZero, 0, 0),
    CpEntry("Float", FloatNaN, 0, 0),
    CpEntry("Float", FloatOne, 0, 0),
    CpEntry("String", 1, 0, 0),
    CpEntry("UnresolvedString", 1, 0, 0),
    CpEntry("String", 2, 0, 0),
    CpEntry("Class", 1, 0, 0),
    CpEntry("UnresolvedClass", 1, 0, 0),
    CpEntry("Class", 2, 0, 0)>>

\* slots and increments of the iinc instructions: the plain form has one
\* byte for each, the wide form two
IincSlots == {1, 2}
IincAmounts == {1, -1}
WideIincAmounts == {1, 2, 258}

OperandInstrs ==
  {Op1(op, i) : op \in {"ldc", "ldc_w"}, i \in 1..Len(OperandPool)}
    \cup {Op2("iinc", x, y) : x \in IincSlots, y \in IincAmounts}
    \cup {Wide(Op2("iinc", x, y)) : x \in IincSlots, y \in WideIincAmounts}

InitOperands ==
  \E io \in OperandInstrs, in \in OperandInstrs :
    \/ OneCaller(<<CallOf("EMCP", MethodOf(OldSummary, <<io>>, OperandPool),
                          MethodOf(OldSummary, <<in>>, OperandPool))>>)
    \/ OneCaller(<<CallOf("switchable", MethodOf(OldSummary, <<io>>, OperandPool),
                          MethodOf(<<3, 1, 1>>, <<in>>, OperandPool))>>)

SpecOperands == InitOperands /\ [][Next]_vars

(***************************************************************************)
(* SpecLive: one call that gets to its instruction scan, exact on frames   *)
(* of the same sizes or switchable on frames of different sizes.  A call   *)
(* is not preempted for ever: the caller keeps running until the call has  *)
(* returned.                                                               *)
(***************************************************************************)
LiveOldBodies == {c \in SeqsUpTo(FragInstrs, 1, MaxLiveOldLen) : WellFormed(c)}
LiveNewBodies == {c \in SeqsUpTo(FragInstrs, 1, MaxLiveNewLen) : WellFormed(c)}

InitLive ==
  \E oc \in LiveOldBodies, nc \in LiveNewBodies :
    \/ OneCaller(<<CallOf("EMCP", MethodOf(OldSummary, oc, <<>>),
                          MethodOf(OldSummary, nc, <<>>))>>)
    \/ OneCaller(<<CallOf("switchable", MethodOf(OldSummary, oc, <<>>),
                          MethodOf(<<3, 1, 1>>, nc, <<>>))>>)

SpecLive == InitLive /\ [][Next]_vars /\ WF_vars(Next)

(***************************************************************************)
(* SpecBack: one call on bodies with backward branches and old             *)
(* instructions behind them, exact on frames of the same sizes or          *)
(* switchable on frames of different sizes.                                *)
(***************************************************************************)
BackInstrs == {Ins("nop"), Ins("iconst_1"), Op1("goto", -1), Op1("goto", -2)}

BackOldBodies == {c \in SeqsUpTo(BackInstrs, 1, MaxBackOldLen) : WellFormed(c)}
BackNewBodies == {c \in SeqsUpTo(BackInstrs, 1, MaxBackNewLen) : WellFormed(c)}

InitBack ==
  \E oc \in BackOldBodies, nc \in BackNewBodies :
    \/ OneCaller(<<CallOf("EMCP", MethodOf(OldSummary, oc, <<>>),
                          MethodOf(OldSummary, nc, <<>>))>>)
    \/ OneCaller(<<CallOf("switchable", MethodOf(OldSummary, oc, <<>>),
                          MethodOf(<<3, 1, 1>>, nc, <<>>))>>)

SpecBack == InitBack /\ [][Next]_vars

(***************************************************************************)
(* SpecSeq: the caller makes one call, switchable or exact, and then asks  *)
(* for the exact comparison of another pair, whose bodies hold branches    *)
(* and switches.  The first call leaves the static fields behind.          *)
(***************************************************************************)
\* the first calls: a switchable call that queues forward jumps, stores a
\* fragment and returns true, one that fails in its forward search, one
\* that is answered without a scan, and an exact call
PriorCalls ==
  {CallOf("switchable",
          MethodOf(OldSummary, <<Op1("goto", 3), Ins("ireturn")>>, <<>>),
          MethodOf(<<3, 1, 1>>, <<Op1("goto", 4), Ins("nop"), Ins("ireturn")>>, <<>>)),
   CallOf("switchable",
          MethodOf(OldSummary, <<TableSwitch(0, 0, <<0>>), Ins("ireturn")>>, <<>>),
          MethodOf(<<3, 1, 1>>, <<TableSwitch(0, 0, <<0>>), Ins("nop")>>, <<>>)),
   CallOf("switchable",
          MethodOf(OldSummary, <<Ins("nop")>>, <<>>),
          MethodOf(OldSummary, <<Ins("nop")>>, <<>>)),
   CallOf("EMCP",
          MethodOf(OldSummary, <<Op1("goto", 0)>>, <<>>),
          MethodOf(OldSummary, <<Op1("goto", 0)>>, <<>>))}

SeqInstrs ==
  {Ins("nop"), Op1("goto", 3), Op1("goto", 0), Op1("goto", -1),
   TableSwitch(0, 0, <<0>>), LookupSwitch(0, <<<<5, 0>>>>)}

SeqBodies == {c \in SeqsUpTo(SeqInstrs, 1, MaxSeqLen) : WellFormedJumps(c)}

InitSeq ==
  \E d \in PriorCalls, oc \in SeqBodies, nc \in SeqBodies :
    OneCaller(<<d, CallOf("EMCP", MethodOf(OldSummary, oc, <<>>),
                          MethodOf(OldSummary, nc, <<>>))>>)

SpecSeq == InitSeq /\ [][Next]_vars

(***************************************************************************)
(* Vocabulary of the properties.                                           *)
(***************************************************************************)
\* call k of thread t has returned
Returned(t, k) == k \in 1..Len(call[t].out)
ModeOf(t, k) == call[t].script[k].mode
OldOf(t, k) == call[t].script[k].old
NewOf(t, k) == call[t].script[k].new
RetOf(t, k) == call[t].out[k].ret
MapOf(t, k) == call[t].out[k].bci_map

\* thread t has just returned from call k: its locals are still those of k
JustReturned(t, k) ==
  Returned(t, k) /\ call[t].n = k + 1 /\ call[t].pc \in {"call", "end"}

SameSummary(old_method, new_method) ==
  /\ old_method.max_stack = new_method.max_stack
  /\ old_method.max_locals = new_method.max_locals
  /\ old_method.size_of_parameters = new_method.size_of_parameters

\* thread t asks for EMCP and then for switchable on the same pair
AsksBoth(t) ==
  /\ Len(call[t].script) = 2
  /\ ModeOf(t, 1) = "EMCP" /\ ModeOf(t, 2) = "switchable"
  /\ OldOf(t, 1) = OldOf(t, 2) /\ NewOf(t, 1) = NewOf(t, 2)

(***************************************************************************)
(* C1  Exact implies switchable: whenever methods_EMCP(old, new) returned  *)
(* true, methods_switchable(old, new, map) on the same pair returns true   *)
(* and leaves the map empty.                                               *)
(***************************************************************************)
C1_ExactImpliesSwitchable ==
  \A t \in Threads :
    (AsksBoth(t) /\ Returned(t, 2) /\ RetOf(t, 1))
      => (RetOf(t, 2) /\ MapOf(t, 2) = EmptyBciMap)

(***************************************************************************)
(* C2  Precondition check: in both modes, a pair that passes the code-size *)
(* test goes on to the instruction scan exactly when max_stack, max_locals *)
(* and size_of_parameters are all equal, and is answered false without a   *)
(* scan when one of them differs.                                          *)
(***************************************************************************)
SizeTestPassed(d) ==
  IF d.mode = "EMCP"
  THEN code_size(d.old) = code_size(d.new)
  ELSE code_size(d.old) <= code_size(d.new)

C2_EntryStep(t) ==
  LET d == call[t].script[call[t].n]
  IN  (call[t].pc = "call" /\ call'[t] # call[t] /\ SizeTestPassed(d))
        => IF SameSummary(d.old, d.new)
           THEN call'[t].pc = "loop"
           ELSE /\ call'[t].pc # "loop"
                /\ call'[t].out[call[t].n].ret = FALSE

C2_PreconditionCheck == [][\A t \in Threads : C2_EntryStep(t)]_vars

(***************************************************************************)
(* C7  Length monotonicity: methods_switchable returns false whenever the  *)
(* new code is shorter than the old code, and then the BciMap of the       *)
(* caller holds no fragment.                                               *)
(***************************************************************************)
C7_LengthMonotonicity ==
  \A t \in Threads : \A k \in 1..Len(call[t].out) :
    (ModeOf(t, k) = "switchable" /\ code_size(NewOf(t, k)) < code_size(OldOf(t, k)))
      => (~RetOf(t, k) /\ MapOf(t, k) = EmptyBciMap)

\* a switchable call on a shorter new body with instructions of several
\* lengths has returned
C7_Witness ==
  \E t \in Threads : \E k \in 1..Len(call[t].out) :
    /\ ModeOf(t, k) = "switchable"
    /\ code_size(NewOf(t, k)) < code_size(OldOf(t, k))
    /\ Len(NewOf(t, k).code) >= Len(OldOf(t, k).code)
    /\ ~SameSummary(OldOf(t, k), NewOf(t, k))

(***************************************************************************)
(* C3  Insertion tolerance: if the new body is the old body with one       *)
(* instruction sequence S spliced in at one point (branches that cross the *)
(* splice re-aimed at the same instructions, none from outside S into S),  *)
(* methods_switchable returns true and the map sends every old bci before  *)
(* the splice to itself and every old bci after it to old + len(S).        *)
(***************************************************************************)
IsBranch(ins) == ins.op \in BranchOps \cup WideBranchOps
TargetIndex(code, k) == IndexAt(code, BciOf(code, k) + code[k].a)

\* new_method is old_method with cnt instructions spliced in after its
\* first p instructions
IsSplice(old_method, new_method, p, cnt) ==
  LET oc == old_method.code
      nc == new_method.code
      Shift(j) == IF j <= p THEN j ELSE j + cnt
  IN  /\ SameSummary(old_method, new_method)
      /\ old_method.constants = new_method.constants
      /\ Len(nc) = Len(oc) + cnt
      /\ \A j \in 1..Len(oc) :
           /\ nc[Shift(j)].op = oc[j].op
           /\ IF IsBranch(oc[j])
              THEN TargetIndex(nc, Shift(j)) = Shift(TargetIndex(oc, j))
              ELSE nc[Shift(j)] = oc[j]

\* the map sends the old bcis as a splice after p instructions requires
SpliceTranslation(old_method, new_method, p, cnt, map) ==
  LET oc == old_method.code
      nc == new_method.code
      lenS == BciOf(nc, p + cnt + 1) - BciOf(nc, p + 1)
  IN  \A j \in 1..Len(oc) :
        new_bci_for_old(map, BciOf(oc, j))
          = IF j <= p THEN BciOf(oc, j) ELSE BciOf(oc, j) + lenS

C3_InsertionTolerance ==
  \A t \in Threads : \A k \in 1..Len(call[t].out) :
    LET o == OldOf(t, k)
        n == NewOf(t, k)
        Splices == {pc \in (0..Len(o.code)) \X (1..Len(n.code)) :
                      IsSplice(o, n, pc[1], pc[2])}
    IN  (ModeOf(t, k) = "switchable" /\ Splices # {})
          => /\ RetOf(t, k)
             /\ \E pc \in Splices : SpliceTranslation(o, n, pc[1], pc[2], MapOf(t, k))

(***************************************************************************)
(* C6  methods_EMCP returns true only if both streams have the same number *)
(* of instructions with, at every index, identical opcodes and equal       *)
(* arguments; a mismatch or a stream that ends early yields false; and     *)
(* when true is returned the new stream is exhausted together with the    *)
(* old one.                                                                *)
(***************************************************************************)
\* the exact-mode argument rule for the k-th instructions of two bodies
ExactArgsEqual(old_method, new_method, k) ==
  LET so == [code |-> old_method.code, bci |-> BciOf(old_method.code, k),
             next_bci |-> BciOf(old_method.code, k + 1)]
      sn == [code |-> new_method.code, bci |-> BciOf(new_method.code, k),
             next_bci |-> BciOf(new_method.code, k + 1)]
  IN  args_same(old_method.code[k].op, new_method.code[k].op, so, sn,
                old_method.constants, new_method.constants, FALSE, EmptyBciMap).ret

InstructionwiseEqual(old_method, new_method) ==
  /\ Len(old_method.code) = Len(new_method.code)
  /\ \A k \in 1..Len(old_method.code) :
       /\ old_method.code[k].op = new_method.code[k].op
       /\ ExactArgsEqual(old_method, new_method, k)

C6_EMCPLockstep ==
  \A t \in Threads : \A k \in 1..Len(call[t].out) :
    ModeOf(t, k) = "EMCP"
      => /\ RetOf(t, k) => InstructionwiseEqual(OldOf(t, k), NewOf(t, k))
         /\ ~InstructionwiseEqual(OldOf(t, k), NewOf(t, k)) => ~RetOf(t, k)
         /\ (RetOf(t, k) /\ JustReturned(t, k))
              => /\ is_last_bytecode(call[t].s_old)
                 /\ is_last_bytecode(call[t].s_new)
                 /\ call[t].s_new.next_bci = code_size(NewOf(t, k))

\* an exact comparison of two bodies of at least two instructions, with a
\* branch among them, has just returned true
C6_Witness ==
  \E t \in Threads : \E k \in 1..Len(call[t].out) :
    /\ ModeOf(t, k) = "EMCP" /\ RetOf(t, k) /\ JustReturned(t, k)
    /\ Len(OldOf(t, k).code) >= 2
    /\ \E j \in 1..Len(OldOf(t, k).code) : IsBranch(OldOf(t, k).code[j])

(***************************************************************************)
(* C9  Forward-branch deferral: in a switchable scan a branch pair with    *)
(* both offsets > 0 is accepted without validation and its two targets are *)
(* appended to the pending list; the pending pairs are tested only after   *)
(* the old stream is consumed, against the final map; true is returned    *)
(* only if every pair is at the same location, false as soon as one is not.*)
(***************************************************************************)
InSwitchable(t) ==
  call[t].pc \in {"loop", "search", "fwd"} /\ Mode(t) = "switchable"

\* the step compares a pair of branches whose offsets are both forward
ComparesForwardBranches(t) ==
  /\ InSwitchable(t) /\ call[t].pc # "fwd"
  /\ call'[t].s_new # call[t].s_new
  /\ call'[t].c_old = call'[t].c_new
  /\ call'[t].c_old \in BranchOps \cup WideBranchOps
  /\ CurIns(call'[t].s_old).a > 0
  /\ CurIns(call'[t].s_new).a > 0

C9_Deferred(t) ==
  ComparesForwardBranches(t)
    => /\ call'[t].fwd_jmps = call[t].fwd_jmps
            \o <<call'[t].s_old.bci + CurIns(call'[t].s_old).a,
                 call'[t].s_new.bci + CurIns(call'[t].s_new).a>>
       /\ call'[t].pc = "loop"
       /\ call'[t].out = call[t].out

C9_Validation(t) ==
  (InSwitchable(t) /\ call[t].pc = "fwd" /\ call'[t] # call[t])
    => /\ call'[t].bci_map = call[t].bci_map
       /\ call'[t].fwd_jmps = call[t].fwd_jmps
       /\ IF call[t].i < Len(call[t].fwd_jmps) \div 2
          THEN IF old_and_new_locations_same(call[t].bci_map,
                                             call[t].fwd_jmps[2 * call[t].i + 1],
                                             call[t].fwd_jmps[2 * call[t].i + 2])
               THEN call'[t].pc = "fwd" /\ call'[t].i = call[t].i + 1
               ELSE /\ Len(call'[t].out) = call[t].n
                    /\ ~call'[t].out[call[t].n].ret
          ELSE /\ Len(call'[t].out) = call[t].n
               /\ call'[t].out[call[t].n].ret

C9_State(t) ==
  /\ (InSwitchable(t) /\ call[t].pc = "fwd")
       => (is_last_bytecode(call[t].s_old) /\ call[t].c_old = Illegal)
  /\ \A k \in 1..Len(call[t].out) :
       (ModeOf(t, k) = "switchable" /\ RetOf(t, k) /\ JustReturned(t, k))
         => \A j \in 0..(Len(call[t].fwd_jmps) \div 2 - 1) :
              old_and_new_locations_same(MapOf(t, k), call[t].fwd_jmps[2 * j + 1],
                                         call[t].fwd_jmps[2 * j + 2])

C9_ForwardBranchDeferral ==
  /\ [](\A t \in Threads : C9_State(t))
  /\ [][\A t \in Threads : C9_Deferred(t) /\ C9_Validation(t)]_vars

\* a switchable comparison that queued a forward pair and stored a fragment
\* has just returned true
C9_Witness ==
  \E t \in Threads : \E k \in 1..Len(call[t].out) :
    /\ ModeOf(t, k) = "switchable" /\ RetOf(t, k) /\ JustReturned(t, k)
    /\ Len(call[t].fwd_jmps) >= 2
    /\ MapOf(t, k) # EmptyBciMap

(***************************************************************************)
(* C10  Fragment recording: a forward search that started at old bci o and *)
(* new bci n and finds its first match at new bci m stores exactly the     *)
(* fragment (o, n, m); the old cursor stays at o during the search and the *)
(* lockstep scan resumes behind o and m.  For old [iconst_1, ireturn] and  *)
(* new [iconst_1, nop, ireturn] the answer is true with the one fragment   *)
(* (1, 1, 2).                                                              *)
(***************************************************************************)
C10_SearchStep(t) ==
  (call[t].pc = "search" /\ call'[t] # call[t])
    => /\ call'[t].s_old = call[t].s_old
       /\ call[t].s_old.bci = call[t].old_bci
       /\ call'[t].pc = "search" => call'[t].bci_map = call[t].bci_map
       /\ call'[t].pc = "loop"
            => /\ call'[t].bci_map
                    = Append(call[t].bci_map,
                             [old_bci |-> call[t].old_bci,
                              new_st_bci |-> call[t].new_st_bci,
                              new_end_bci |-> call'[t].s_new.bci])
               /\ call'[t].s_new.bci > call[t].new_st_bci
               /\ call'[t].s_old.next_bci > call[t].old_bci
               /\ call'[t].s_new.next_bci > call'[t].s_new.bci

C10_Example(t) ==
  \A k \in 1..Len(call[t].out) :
    (/\ ModeOf(t, k) = "switchable"
     /\ OldOf(t, k).code = <<Ins("iconst_1"), Ins("ireturn")>>
     /\ NewOf(t, k).code = <<Ins("iconst_1"), Ins("nop"), Ins("ireturn")>>)
      => /\ RetOf(t, k)
         /\ MapOf(t, k) = <<[old_bci |-> 1, new_st_bci |-> 1, new_end_bci |-> 2]>>

C10_FragmentRecording ==
  /\ [](\A t \in Threads : C10_Example(t))
  /\ [][\A t \in Threads : C10_SearchStep(t)]_vars

(***************************************************************************)
(* C5  Reflexivity: methods_EMCP(M, M') is true whenever M' is a           *)
(* structurally identical copy of M: same frame sizes, same instruction    *)
(* stream, constant-pool operands that denote the same target or literal.  *)
(***************************************************************************)
TagFamily(tag) ==
  CASE tag \in {"String", "UnresolvedString"} -> "string"
    [] tag \in {"Class", "UnresolvedClass"} -> "class"
    [] OTHER -> tag

SameConstant(e1, e2) ==
  /\ TagFamily(e1.tag) = TagFamily(e2.tag)
  /\ e1.a = e2.a /\ e1.b = e2.b /\ e1.c = e2.c

StructurallyIdentical(old_method, new_method) ==
  /\ SameSummary(old_method, new_method)
  /\ Len(old_method.code) = Len(new_method.code)
  /\ \A k \in 1..Len(old_method.code) :
       LET io == old_method.code[k]
           in == new_method.code[k]
       IN  IF RefersToPool(io)
           THEN /\ io.op = in.op /\ io.b = in.b
                /\ SameConstant(old_method.constants[io.a], new_method.constants[in.a])
           ELSE io = in

C5_Reflexivity ==
  \A t \in Threads : \A k \in 1..Len(call[t].out) :
    (ModeOf(t, k) = "EMCP" /\ StructurallyIdentical(OldOf(t, k), NewOf(t, k)))
      => RetOf(t, k)

(***************************************************************************)
(* C8  Constant-pool reordering indifference: two exact comparisons that   *)
(* differ only in the layout of the two pools, and so in the raw indices   *)
(* of the operands, return the same verdict.                               *)
(***************************************************************************)
IsReindexing(d1, d2) ==
  \E po \in PoolPerms, pn \in PoolPerms :
    /\ d2.old = Permuted(d1.old, po)
    /\ d2.new = Permuted(d1.new, pn)

ComparesReindexed(t) ==
  /\ Len(call[t].script) = 2
  /\ ModeOf(t, 1) = "EMCP" /\ ModeOf(t, 2) = "EMCP"
  /\ IsReindexing(call[t].script[1], call[t].script[2])

C8_PoolReorderingIndifference ==
  \A t \in Threads :
    (ComparesReindexed(t) /\ Returned(t, 2)) => RetOf(t, 1) = RetOf(t, 2)

\* both comparisons of a pair of two-instruction bodies, whose raw indices
\* differ between the old and the new side the second time, returned true
C8_Witness ==
  \E t \in Threads :
    /\ ComparesReindexed(t) /\ Returned(t, 2)
    /\ RetOf(t, 1) /\ RetOf(t, 2)
    /\ Len(OldOf(t, 1).code) >= 2
    /\ \E k \in 1..Len(OldOf(t, 2).code) : OldOf(t, 2).code[k].a # NewOf(t, 2).code[k].a

(***************************************************************************)
(* C4  Independence of concurrent calls: under every interleaving of two   *)
(* calls on different threads, each call returns the verdict and builds    *)
(* the BciMap it returns and builds when it runs alone.                    *)
(***************************************************************************)
C4_ConcurrentCallsIndependent ==
  \A t \in Threads : \A k \in 1..Len(call[t].out) :
    call[t].out[k] = Alone(call[t].script[k])

(***************************************************************************)
(* Vocabulary of the scan properties.                                      *)
(***************************************************************************)
\* thread t takes a step of its running call
Steps(t) == call'[t] # call[t]

\* the step of thread t compares the arguments of two instructions of the
\* same opcode: a lockstep comparison or a candidate of the forward search
ComparesArgs(t) ==
  /\ Steps(t)
  /\ call[t].pc \in {"loop", "search"}
  /\ call'[t].s_new # call[t].s_new
  /\ call'[t].c_old = call'[t].c_new
  /\ call'[t].c_old # Illegal

\* ... and args_same returned true
Accepts(t) == ComparesArgs(t) /\ call'[t].matched # call[t].matched

\* ... and args_same returned false
Rejects(t) == ComparesArgs(t) /\ call'[t].matched = call[t].matched

\* the inserted length of a fragment
FragLen(f) == f.new_end_bci - f.new_st_bci

\* the bcis of the instructions of a body
Bcis(code) == {BciOf(code, k) : k \in 1..Len(code)}

(***************************************************************************)
(* C11  Old instructions are never skipped: methods_switchable returns     *)
(* false when the forward search reaches the end of the new stream without *)
(* a match and when the new stream ends while old instructions remain, so  *)
(* it returns true only if the old instructions have their counterparts,   *)
(* in order, among the new ones.  Old [iconst_1, ireturn] against new      *)
(* [iconst_2, ireturn] is neither EMCP nor switchable.                     *)
(***************************************************************************)
\* a new instruction that can stand for an old one: the same instruction,
\* or for a jump, whose offsets may differ, one of the same opcode
Counterpart(io, in) ==
  IF io.op \in BranchOps \cup WideBranchOps \cup SwitchOps THEN io.op = in.op ELSE io = in

\* the old instructions from i on have counterparts, in order, among the
\* new instructions from j on
RECURSIVE EmbedsFrom(_, _, _, _)
EmbedsFrom(oc, nc, i, j) ==
  IF i > Len(oc) THEN TRUE
  ELSE IF j > Len(nc) THEN FALSE
  ELSE IF Counterpart(oc[i], nc[j]) THEN EmbedsFrom(oc, nc, i + 1, j + 1)
  ELSE EmbedsFrom(oc, nc, i, j + 1)

C11_NoSkip(t) ==
  \A k \in 1..Len(call[t].out) :
    (ModeOf(t, k) = "switchable" /\ ~EmbedsFrom(OldOf(t, k).code, NewOf(t, k).code, 1, 1))
      => ~RetOf(t, k)

C11_Example(t) ==
  \A k \in 1..Len(call[t].out) :
    (/\ OldOf(t, k).code = <<Ins("iconst_1"), Ins("ireturn")>>
     /\ NewOf(t, k).code = <<Ins("iconst_2"), Ins("ireturn")>>)
      => ~RetOf(t, k)

C11_EndOfNew(t) ==
  (/\ Steps(t) /\ Mode(t) = "switchable"
   /\ \/ call[t].pc = "search"
      \/ call[t].pc = "loop" /\ NextCode(call[t].s_old) # Illegal
   /\ NextCode(call[t].s_new) = Illegal)
    => /\ Len(call'[t].out) = call[t].n
       /\ ~call'[t].out[call[t].n].ret

C11_OldNeverSkipped ==
  /\ [](\A t \in Threads : C11_NoSkip(t) /\ C11_Example(t))
  /\ [][\A t \in Threads : C11_EndOfNew(t)]_vars

\* a switchable scan that accepted a pair and then searched the new stream
\* to its end for the next old instruction has just returned false
C11_Witness ==
  \E t \in Threads : \E k \in 1..Len(call[t].out) :
    /\ ModeOf(t, k) = "switchable" /\ ~RetOf(t, k) /\ JustReturned(t, k)
    /\ call[t].matched # <<>>
    /\ call[t].c_old # Illegal /\ call[t].c_new = Illegal
    /\ call[t].s_new.bci > call[t].new_st_bci + 1

(***************************************************************************)
(* C12  BciMap invariant: in every state of a switchable scan the stored   *)
(* fragments are strictly increasing in old_bci, have new_st_bci <         *)
(* new_end_bci, and their ranges [new_st_bci, new_end_bci) are pairwise    *)
(* disjoint and increasing.                                                *)
(***************************************************************************)
MapWellFormed(map) ==
  /\ \A i \in 1..Len(map) : map[i].new_st_bci < map[i].new_end_bci
  /\ \A i \in 1..Len(map) : \A j \in (i + 1)..Len(map) :
       /\ map[i].old_bci < map[j].old_bci
       /\ map[i].new_end_bci <= map[j].new_st_bci

C12_BciMapInvariant ==
  \A t \in Threads :
    /\ MapWellFormed(call[t].bci_map)
    /\ \A k \in 1..Len(call[t].out) : MapWellFormed(MapOf(t, k))

\* a running switchable scan has stored two fragments
C12_Witness ==
  \E t \in Threads :
    /\ InSwitchable(t)
    /\ Len(call[t].bci_map) >= 2

(***************************************************************************)
(* C13  Termination: every call of methods_EMCP and methods_switchable     *)
(* runs to completion and ends in a boolean verdict; every iteration of    *)
(* the lockstep loop and of the forward search advances a cursor, the      *)
(* forward search stops at the end of the new stream, and the test of the  *)
(* forward jumps visits each pair once.  No step of a call reads through   *)
(* a static field that points into a frame that is gone.                   *)
(***************************************************************************)
AllReturned ==
  \A t \in Threads :
    /\ call[t].pc = "end"
    /\ Len(call[t].out) = Len(call[t].script)
    /\ \A k \in 1..Len(call[t].out) : RetOf(t, k) \in BOOLEAN

C13_Progress(t) ==
  /\ (call[t].pc = "loop" /\ call'[t].pc \in {"loop", "search"} /\ call'[t].n = call[t].n)
       => /\ call'[t].s_old.next_bci > call[t].s_old.next_bci
          /\ call'[t].s_new.next_bci > call[t].s_new.next_bci
  /\ (call[t].pc = "search" /\ call'[t].pc \in {"loop", "search"} /\ call'[t].n = call[t].n)
       => /\ call'[t].s_new.next_bci > call[t].s_new.next_bci
          /\ call'[t].s_new.bci < code_size(call[t].script[call[t].n].new)
  /\ (call[t].pc = "fwd" /\ call'[t].pc = "fwd" /\ call'[t].n = call[t].n)
       => /\ call'[t].i = call[t].i + 1
          /\ call'[t].i <= Len(call[t].fwd_jmps) \div 2

\* the static fields point to the locals of the call that reads them
C13_StaticsValid(t) ==
  call[t].pc \in {"loop", "search"}
    => /\ statics.s_old = <<t, call[t].n>> /\ Live(World, statics.s_old)
       /\ statics.s_new = <<t, call[t].n>> /\ Live(World, statics.s_new)
       /\ statics.switchable_test = (Mode(t) = "switchable")
       /\ Mode(t) = "switchable"
            => /\ statics.bci_map = <<t, call[t].n>>
               /\ statics.fwd_jmps = <<t, call[t].n>>

C13_Termination ==
  /\ <>[]AllReturned
  /\ [](\A t \in Threads : C13_StaticsValid(t))
  /\ [][\A t \in Threads : C13_Progress(t)]_vars

\* a switchable call that went through a forward search and tested a
\* pending pair has returned its verdict
C13_Witness ==
  \E t \in Threads :
    /\ AllReturned /\ Len(call[t].out) = 1
    /\ ModeOf(t, 1) = "switchable"
    /\ MapOf(t, 1) # EmptyBciMap
    /\ call[t].i >= 1

(***************************************************************************)
(* C20  When methods_switchable returns true, every instruction of the new *)
(* stream is matched with exactly one old instruction or lies inside a     *)
(* stored fragment [new_st_bci, new_end_bci).                              *)
(***************************************************************************)
MatchedOnce(matched, n) == Cardinality({j \in 1..Len(matched) : matched[j][2] = n}) = 1

InFragment(map, n) ==
  \E i \in 1..Len(map) : map[i].new_st_bci <= n /\ n < map[i].new_end_bci

C20_NewCovered ==
  \A t \in Threads : \A k \in 1..Len(call[t].out) :
    (ModeOf(t, k) = "switchable" /\ RetOf(t, k) /\ JustReturned(t, k))
      => \A n \in Bcis(NewOf(t, k).code) :
           MatchedOnce(call[t].matched, n) \/ InFragment(MapOf(t, k), n)

(***************************************************************************)
(* C15  Branches in switchable mode (goto, if*, jsr, goto_w, jsr_w): a     *)
(* pair whose offsets are both <= 0 is accepted exactly when the two       *)
(* targets are the same location in the BciMap of that moment; a pair      *)
(* whose offsets are both > 0 is accepted and queued; a pair whose offsets *)
(* differ in sign is rejected.                                             *)
(***************************************************************************)
C15_BranchStep(t) ==
  LET io == CurIns(call'[t].s_old)
      in == CurIns(call'[t].s_new)
      old_dest == call'[t].s_old.bci + io.a
      new_dest == call'[t].s_new.bci + in.a
  IN  (ComparesArgs(t) /\ Mode(t) = "switchable" /\ IsBranch(io))
        => IF io.a <= 0 /\ in.a <= 0
           THEN /\ Accepts(t)
                     <=> old_and_new_locations_same(call[t].bci_map, old_dest, new_dest)
                /\ call'[t].fwd_jmps = call[t].fwd_jmps
           ELSE IF io.a > 0 /\ in.a > 0
                THEN /\ Accepts(t)
                     /\ call'[t].fwd_jmps = call[t].fwd_jmps \o <<old_dest, new_dest>>
                ELSE Rejects(t)

C15_SwitchableBranches == [][\A t \in Threads : C15_BranchStep(t)]_vars

(***************************************************************************)
(* C16  Switches.  In switchable mode a lookupswitch pair is accepted      *)
(* exactly when the numbers of pairs and all match values are equal, a     *)
(* tableswitch pair exactly when low and high are equal; an accepted pair  *)
(* appends the default targets and the targets of every case or slot to    *)
(* the pending list (1 + npairs, 1 + (high - low + 1) pairs), whatever the *)
(* direction of the jumps.  In exact mode two switches are equal exactly   *)
(* when they have the same length and the same bytes.                      *)
(***************************************************************************)
IsSwitch(ins) == ins.op \in SwitchOps

\* the jump offset of case or slot i of a switch
CaseOffset(ins, i) == IF ins.op = "lookupswitch" THEN ins.tbl[i][2] ELSE ins.tbl[i]

high(ins) == ins.b + Len(ins.tbl) - 1

SwitchKeysEqual(io, in) ==
  IF io.op = "lookupswitch"
  THEN /\ Len(io.tbl) = Len(in.tbl)
       /\ \A i \in 1..Len(io.tbl) : io.tbl[i][1] = in.tbl[i][1]
  ELSE io.b = in.b /\ high(io) = high(in)

\* the target pairs of an accepted switch pair: the default, then the cases
SwitchTargetPairs(io, in, old_bci, new_bci) ==
  [k \in 1..(2 * (1 + Len(io.tbl))) |->
     IF k = 1 THEN old_bci + io.a
     ELSE IF k = 2 THEN new_bci + in.a
     ELSE IF k % 2 = 1 THEN old_bci + CaseOffset(io, (k - 1) \div 2)
     ELSE new_bci + CaseOffset(in, (k - 2) \div 2)]

C16_SwitchStep(t) ==
  LET io == CurIns(call'[t].s_old)
      in == CurIns(call'[t].s_new)
      old_bci == call'[t].s_old.bci
      new_bci == call'[t].s_new.bci
  IN  (ComparesArgs(t) /\ IsSwitch(io))
        => IF Mode(t) = "switchable"
           THEN /\ Accepts(t) <=> SwitchKeysEqual(io, in)
                /\ Accepts(t)
                     => call'[t].fwd_jmps
                          = call[t].fwd_jmps \o SwitchTargetPairs(io, in, old_bci, new_bci)
           ELSE /\ Accepts(t) <=> (InstrLen(io, old_bci) = InstrLen(in, new_bci) /\ io = in)
                /\ call'[t].fwd_jmps = call[t].fwd_jmps

C16_Switches == [][\A t \in Threads : C16_SwitchStep(t)]_vars

\* a switchable scan has accepted a tableswitch pair that stands at
\* different alignments and whose jumps go in different directions
C16_Witness ==
  \E t \in Threads :
    /\ InSwitchable(t) /\ call[t].pc = "loop"
    /\ call[t].c_old = "tableswitch"
    /\ call[t].matched # <<>>
    /\ call[t].matched[Len(call[t].matched)] = <<call[t].s_old.bci, call[t].s_new.bci>>
    /\ call[t].s_old.bci # call[t].s_new.bci
    /\ CurIns(call[t].s_old).a # CurIns(call[t].s_new).a
    /\ Len(call[t].fwd_jmps) = 4

(***************************************************************************)
(* C19  Every pair in the pending list when the test of the forward jumps  *)
(* starts was appended by an args_same call that returned true; an         *)
(* args_same call that returns false, in the lockstep scan or for a        *)
(* candidate of the forward search, leaves the pending list unchanged.     *)
(***************************************************************************)
\* the number of pairs an accepted instruction pair appends
PendingPairsOf(ins) ==
  IF IsSwitch(ins) THEN 1 + Len(ins.tbl)
  ELSE IF IsBranch(ins) /\ ins.a > 0 THEN 1
  ELSE 0

RECURSIVE PendingPairsOfAll(_, _)
PendingPairsOfAll(code, matched) ==
  IF matched = <<>> THEN 0
  ELSE PendingPairsOf(code[IndexAt(code, Head(matched)[1])])
         + PendingPairsOfAll(code, Tail(matched))

C19_AtValidation(t) ==
  (InSwitchable(t) /\ call[t].pc = "fwd")
    => Len(call[t].fwd_jmps)
         = 2 * PendingPairsOfAll(call[t].script[call[t].n].old.code, call[t].matched)

C19_RejectStep(t) ==
  (Rejects(t) /\ Mode(t) = "switchable") => call'[t].fwd_jmps = call[t].fwd_jmps

C19_PendingFromAccepted ==
  /\ [](\A t \in Threads : C19_AtValidation(t))
  /\ [][\A t \in Threads : C19_RejectStep(t)]_vars

(***************************************************************************)
(* C18  Position consistency: whenever a switchable scan matches the old   *)
(* instruction at bci o with the new instruction at bci n, n - o is the    *)
(* sum of the inserted lengths of the fragments stored so far, the one     *)
(* stored at this match included; so under the final BciMap every matched  *)
(* old bci that is not a divergence point translates to its new bci.       *)
(***************************************************************************)
RECURSIVE InsertedUpTo(_, _)
InsertedUpTo(map, o) ==
  IF map = <<>> THEN 0
  ELSE InsertedUpTo(Tail(map), o) + (IF Head(map).old_bci <= o THEN FragLen(Head(map)) ELSE 0)

C18_AtMatch(t) ==
  (call[t].n <= Len(call[t].script) /\ Mode(t) = "switchable")
    => \A j \in 1..Len(call[t].matched) :
         call[t].matched[j][2] - call[t].matched[j][1]
           = InsertedUpTo(call[t].bci_map, call[t].matched[j][1])

C18_Translation(t) ==
  \A k \in 1..Len(call[t].out) :
    (ModeOf(t, k) = "switchable" /\ RetOf(t, k) /\ JustReturned(t, k))
      => \A j \in 1..Len(call[t].matched) :
           (\A i \in 1..Len(MapOf(t, k)) : MapOf(t, k)[i].old_bci # call[t].matched[j][1])
             => new_bci_for_old(MapOf(t, k), call[t].matched[j][1]) = call[t].matched[j][2]

C18_PositionConsistency ==
  \A t \in Threads : C18_AtMatch(t) /\ C18_Translation(t)

(***************************************************************************)
(* C14  ldc and ldc_w: two operands are equivalent exactly when their tag  *)
(* families (int, float, string, class) are the same and their values are  *)
(* the same: int and float literals by their value, strings by content,    *)
(* class literals by identity; a resolved and an unresolved entry of the   *)
(* same string or class are equivalent, entries of different families      *)
(* never are.  ldc int 5 against int 6 is not equivalent, unresolved       *)
(* string "x" against resolved string "x" is.                              *)
(***************************************************************************)
C14_LdcStep(t) ==
  LET d == call[t].script[call[t].n]
      io == CurIns(call'[t].s_old)
      in == CurIns(call'[t].s_new)
  IN  (ComparesArgs(t) /\ io.op \in {"ldc", "ldc_w"})
        => (Accepts(t) <=> SameConstant(d.old.constants[io.a], d.new.constants[in.a]))

C14_LdcEquivalence == [][\A t \in Threads : C14_LdcStep(t)]_vars

(***************************************************************************)
(* C17  iinc: two instructions are argument-equal exactly when their wide  *)
(* flags, their slot indices and their increments are equal, in the wide   *)
(* form too, where the 16-bit slot index and both bytes of the 16-bit      *)
(* increment are compared.                                                 *)
(***************************************************************************)
C17_IincStep(t) ==
  LET io == CurIns(call'[t].s_old)
      in == CurIns(call'[t].s_new)
  IN  (ComparesArgs(t) /\ io.op = "iinc")
        => (Accepts(t) <=> (io.wide = in.wide /\ io.a = in.a /\ io.b = in.b))

C17_IincEquivalence == [][\A t \in Threads : C17_IincStep(t)]_vars

(***************************************************************************)
(* C21  A backward branch pair that passes its immediate validation in a   *)
(* switchable scan is at the same location under the final BciMap too: no  *)
(* fragment stored after the check, the one of the forward search in which *)
(* the check ran included, changes the translation of an old bci smaller   *)
(* than the current old position.                                          *)
(***************************************************************************)
\* the accepted pairs of backward branches of the call d are at the same
\* location under map
BackwardPairsSame(d, matched, map) ==
  \A j \in 1..Len(matched) :
    LET o == matched[j][1]
        n == matched[j][2]
        io == d.old.code[IndexAt(d.old.code, o)]
        in == d.new.code[IndexAt(d.new.code, n)]
    IN  (IsBranch(io) /\ io.a <= 0 /\ in.a <= 0)
          => old_and_new_locations_same(map, o + io.a, n + in.a)

C21_Validated(t) ==
  /\ InSwitchable(t)
       => BackwardPairsSame(call[t].script[call[t].n], call[t].matched, call[t].bci_map)
  /\ \A k \in 1..Len(call[t].out) :
       (ModeOf(t, k) = "switchable" /\ JustReturned(t, k))
         => BackwardPairsSame(call[t].script[k], call[t].matched, MapOf(t, k))

C21_FragmentStep(t) ==
  (Steps(t) /\ InSwitchable(t))
    => \A b \in 0..(call'[t].s_old.bci - 1) :
         new_bci_for_old(call'[t].bci_map, b) = new_bci_for_old(call[t].bci_map, b)

C21_BackwardBranchesStable ==
  /\ [](\A t \in Threads : C21_Validated(t))
  /\ [][\A t \in Threads : C21_FragmentStep(t)]_vars

\* a switchable scan has returned after it accepted a pair of backward
\* branches to an old bci behind the start of the method during a forward
\* search, whose fragment it stored after the check
C21_Witness ==
  \E t \in Threads : \E k \in 1..Len(call[t].out) :
    /\ ModeOf(t, k) = "switchable" /\ JustReturned(t, k)
    /\ \E j \in 1..Len(call[t].matched) : \E i \in 1..Len(MapOf(t, k)) :
         LET o == call[t].matched[j][1]
             io == OldOf(t, k).code[IndexAt(OldOf(t, k).code, o)]
         IN  /\ IsBranch(io) /\ io.a < 0 /\ o + io.a > 0
             /\ MapOf(t, k)[i].old_bci = o

(***************************************************************************)
(* C22  methods_EMCP neither reads nor modifies the BciMap or the list of  *)
(* pending jumps: it clears the flag _switchable_test before the first     *)
(* call of args_same, and with the flag cleared args_same neither appends  *)
(* to the list nor asks the map; so after any earlier call, a switchable   *)
(* one that left stale static fields behind included, the verdict of an    *)
(* exact comparison depends on its two arguments only.                     *)
(***************************************************************************)
InEMCP(t) == call[t].pc \in {"call", "loop"} /\ Mode(t) = "EMCP"

C22_VerdictOfArguments(t) ==
  /\ \A k \in 1..Len(call[t].out) :
       ModeOf(t, k) = "EMCP" => call[t].out[k] = Alone(call[t].script[k])
  /\ (InEMCP(t) /\ call[t].pc = "loop") => ~statics.switchable_test

C22_EMCPStep(t) ==
  (Steps(t) /\ InEMCP(t))
    => /\ statics'.bci_map = statics.bci_map
       /\ statics'.fwd_jmps = statics.fwd_jmps
       /\ call'[t].pc = "loop" => ~statics'.switchable_test
       /\ SubSeq(call'[t].out, 1, Len(call[t].out)) = call[t].out
       /\ call[t].pc = "loop"
            => /\ call'[t].fwd_jmps = call[t].fwd_jmps
               /\ call'[t].bci_map = call[t].bci_map

C22_EMCPIgnoresJumpState ==
  /\ [](\A t \in Threads : C22_VerdictOfArguments(t))
  /\ [][\A t \in Threads : C22_EMCPStep(t)]_vars

\* an exact comparison of two bodies with a switch and a branch has
\* returned true after a switchable call that left its map and its list
\* of pending jumps in the static fields
C22_Witness ==
  \E t \in Threads :
    /\ Len(call[t].out) = 2
    /\ ModeOf(t, 1) = "switchable" /\ ModeOf(t, 2) = "EMCP" /\ RetOf(t, 2)
    /\ MapOf(t, 1) # EmptyBciMap
    /\ statics.bci_map = <<t, 1>> /\ statics.fwd_jmps = <<t, 1>>
    /\ \E i, j \in 1..Len(OldOf(t, 2).code) :
         IsSwitch(OldOf(t, 2).code[i]) /\ IsBranch(OldOf(t, 2).code[j])

(***************************************************************************)
(* ClassLoaderExt.  GrowableArray, SharedPathsMiscInfo, SharedClassUtil    *)
(* and the setters of the flags are not part of the sources at hand.       *)
(***************************************************************************)
\* GrowableArray: indices start at 0
length(arr) == Len(arr)
at(arr, i) == arr[i + 1]
remove_at(arr, i) == SubSeq(arr, 1, i) \o SubSeq(arr, i + 2, Len(arr))
insert_before(arr, idx, elem) ==
  SubSeq(arr, 1, idx) \o <<elem>> \o SubSeq(arr, idx + 1, Len(arr))

CachedClassPathEntry(path, entry) == [path |-> path, entry |-> entry]

\* the loop of line 320 started at index 1
cache_lookup_from_one(cache, path) ==
  IF \E i \in 1..(length(cache) - 1) : at(cache, i).path = path
  THEN CHOOSE i \in 1..(length(cache) - 1) :
         /\ at(cache, i).path = path
         /\ \A j \in 1..(i - 1) : at(cache, j).path # path
  ELSE -1

\* lines 320-322: the index of the first element whose path is equal to
\* path as a string, -1 when there is none
cache_lookup(cache, path) ==
  IF \E i \in 0..(length(cache) - 1) : at(cache, i).path = path
  THEN CHOOSE i \in 0..(length(cache) - 1) :
         /\ at(cache, i).path = path
         /\ \A j \in 0..(i - 1) : at(cache, j).path # path
  ELSE -1

\* lines 323-327 with the hit exchanged with the first element
cache_hit_swapped(cache, i) ==
  IF i # 0
  THEN [cache EXCEPT ![1] = at(cache, i), ![i + 1] = at(cache, 0)]
  ELSE cache

\* lines 323-327: a hit behind the first element moves to the front
cache_hit(cache, i) ==
  IF i # 0
  THEN insert_before(remove_at(cache, i), 0, at(cache, i))
  ELSE cache

\* lines 343-345: the new entry is put in front
cache_miss(cache, path, new_entry) ==
  insert_before(cache, 0, CachedClassPathEntry(path, new_entry))

\* SharedPathsMiscInfo::record_app_offset, add_app_classpath and pop_app
record_app_offset(info) == [info EXCEPT !.app_offset = Len(info.paths)]
add_app_classpath(info, path) == [info EXCEPT !.paths = Append(@, path)]
pop_app(info) ==
  [info EXCEPT !.paths = SubSeq(@, 1, info.app_offset), !.popped = TRUE]

\* lines 244-245: if (UseAppCDS) if (!_has_app_classes)
finalize_pops(appcds, has_app_classes) == appcds /\ ~has_app_classes

\* line 203 and lines 206-208 without the test of the stream
check_skips_any_stream(stream, dump, signed, classpath_index, start_index) ==
  dump /\ signed /\ classpath_index >= start_index

\* line 203 and lines 206-208: a class from a signed JAR of the app loader
\* is skipped during dumping
check_skips(stream, dump, signed, classpath_index, start_index) ==
  stream /\ dump /\ signed /\ classpath_index >= start_index

\* lines 203 and 213: the class comes from the app loader's part of the path
check_sets_flags(stream, classpath_index, start_index) ==
  stream /\ classpath_index >= start_index

(***************************************************************************)
(* The operations of ClassLoaderExt.  The paths are strings; stream is     *)
(* TRUE for a stream that is not NULL.                                     *)
(***************************************************************************)
Paths == {"a.jar", "b.jar", "classes"}
AppClassPaths == {".", "app.jar"}
BootPaths == <<"modules">>
ClasspathIndices == 0..2
Loaders == {"boot", "platform", "app"}

ExtCall(op) == [NoCall EXCEPT !.op = op]

\* lines 191-196 and 54-69
setup_search_paths ==
  /\ vm.phase = "init" /\ vm.DumpSharedSpaces
  /\ \E app_class_path \in AppClassPaths :
       IF vm.UseAppCDS
       THEN /\ ext' = [ext EXCEPT !.app_paths_start_index = Len(BootPaths)]
            /\ vm' = [vm EXCEPT
                        !.phase = "load",
                        !.last = [ExtCall("setup_search_paths") EXCEPT !.path = app_class_path],
                        !.misc_info =
                           IF app_class_path = "."
                           THEN record_app_offset(@)
                           ELSE add_app_classpath(record_app_offset(@), app_class_path)]
       ELSE /\ ext' = ext
            /\ vm' = [vm EXCEPT
                        !.phase = "load",
                        !.last = [ExtCall("setup_search_paths") EXCEPT !.path = app_class_path]]
  /\ UNCHANGED <<call, statics, cached_path_entries, mf>>

\* lines 200-220
check ==
  /\ vm.phase = "load"
  /\ \E stream \in BOOLEAN, classpath_index \in ClasspathIndices, signed \in BOOLEAN :
       LET c == [ExtCall("check") EXCEPT !.stream = stream, !.signed = signed,
                                         !.classpath_index = classpath_index]
       IN  IF check_skips(stream, vm.DumpSharedSpaces, signed, classpath_index,
                          ext.app_paths_start_index)
           THEN /\ ext' = ext
                /\ vm' = [vm EXCEPT !.last = [c EXCEPT !.ok = FALSE]]
           ELSE /\ ext' = IF check_sets_flags(stream, classpath_index,
                                              ext.app_paths_start_index)
                          THEN [ext EXCEPT !.has_app_classes = TRUE,
                                           !.has_platform_classes = TRUE]
                          ELSE ext
                /\ vm' = [vm EXCEPT !.last = [c EXCEPT !.ok = TRUE]]
  /\ UNCHANGED <<call, statics, cached_path_entries, mf>>

\* lines 222-241
record_result ==
  /\ vm.phase = "load" /\ vm.DumpSharedSpaces
  /\ \E classpath_index \in ClasspathIndices, loader \in Loaders :
       /\ ext' = IF loader = "app" THEN [ext EXCEPT !.has_app_classes = TRUE]
                 ELSE IF loader = "platform" THEN [ext EXCEPT !.has_platform_classes = TRUE]
                 ELSE ext
       /\ vm' = [vm EXCEPT !.last = [ExtCall("record_result") EXCEPT
                                       !.classpath_index = classpath_index,
                                       !.loader = loader]]
  /\ UNCHANGED <<call, statics, cached_path_entries, mf>>

\* lines 243-249
finalize_shared_paths_misc_info ==
  /\ vm.phase = "load" /\ vm.DumpSharedSpaces
  /\ vm' = [vm EXCEPT !.phase = "done",
                      !.last = ExtCall("finalize_shared_paths_misc_info"),
                      !.misc_info = IF finalize_pops(vm.UseAppCDS, ext.has_app_classes)
                                    THEN pop_app(@) ELSE @]
  /\ UNCHANGED <<call, statics, ext, cached_path_entries, mf>>

\* lines 313-347.  os::stat and create_class_path_entry answer as the file
\* system has it: st_ok is os::stat(..) == 0, new_entry the entry created
find_classpath_entry_from_cache ==
  /\ vm.phase = "load" /\ vm.DumpSharedSpaces /\ vm.UseAppCDS
  /\ \E path \in Paths :
       LET c == [ExtCall("find_classpath_entry_from_cache") EXCEPT !.path = path]
           i == cache_lookup(cached_path_entries, path)
       IN  IF i >= 0
           THEN /\ cached_path_entries' = cache_hit(cached_path_entries, i)
                /\ vm' = [vm EXCEPT
                            !.last = [c EXCEPT !.ret = at(cached_path_entries, i).entry],
                            !.returned = @ \cup {<<path, at(cached_path_entries, i).entry>>}]
           ELSE \E st_ok \in BOOLEAN, created \in BOOLEAN :
                  LET new_entry == IF created /\ vm.entries_created < MaxEntries
                                   THEN vm.entries_created + 1 ELSE NULL
                  IN  IF ~st_ok
                      THEN /\ cached_path_entries' = cached_path_entries
                           /\ vm' = [vm EXCEPT !.last = [c EXCEPT !.ret = NULL]]
                      ELSE IF new_entry = NULL
                      THEN /\ cached_path_entries' = cached_path_entries
                           /\ vm' = [vm EXCEPT !.last = [c EXCEPT !.ret = NULL, !.ok = TRUE]]
                      ELSE /\ cached_path_entries' = cache_miss(cached_path_entries, path, new_entry)
                           /\ vm' = [vm EXCEPT !.entries_created = new_entry,
                                               !.last = [c EXCEPT !.ret = new_entry, !.ok = TRUE],
                                               !.returned = @ \cup {<<path, new_entry>>}]
  /\ UNCHANGED <<call, statics, ext, mf>>

(***************************************************************************)
(* SpecDump: a run of the virtual machine, dumping the archive or not,     *)
(* with or without UseAppCDS: the search paths are set up, classes are     *)
(* looked up and loaded in any order, and the dump, if it is one, ends     *)
(* with finalize_shared_paths_misc_info.                                   *)
(***************************************************************************)
InitDump ==
  /\ call = [t \in Threads |-> InitCall(<<>>)]
  /\ statics = InitStatics
  /\ ext = InitExt
  /\ cached_path_entries = <<>>
  /\ mf = NoManifest
  /\ \E dump \in BOOLEAN, appcds \in BOOLEAN :
       vm = [VmOf(dump, appcds, IF dump THEN "init" ELSE "load") EXCEPT
               !.misc_info.paths = BootPaths]

NextDump ==
  \/ setup_search_paths
  \/ check
  \/ record_result
  \/ find_classpath_entry_from_cache
  \/ finalize_shared_paths_misc_info

SpecDump == InitDump /\ [][NextDump]_vars

(***************************************************************************)
(* The manifest of a JAR file.  A text is a sequence of characters; the    *)
(* buffer that holds it ends with a NUL.  A pointer into the buffer is the *)
(* index of a character, from 1 on, and NULL is 0.  StringUtils and        *)
(* ClassPathZipEntry are not part of the sources at hand.                  *)
(***************************************************************************)
CR == "CR"
LF == "LF"
SP == " "
NUL == "NUL"

\* line 99: "Class-Path: "
tag == <<"C", "l", "a", "s", "s", "-", "P", "a", "t", "h", ":", SP>>
tag_len == Len(tag)

\* the string that starts at pointer ptr of a buffer
RECURSIVE CString(_, _)
CString(buf, ptr) ==
  IF ptr > Len(buf) \/ buf[ptr] = NUL THEN <<>>
  ELSE <<buf[ptr]>> \o CString(buf, ptr + 1)

strlen(buf, ptr) == Len(CString(buf, ptr))

\* strchr(ptr, ch): the first ch of the string at ptr, NULL without one
strchr(buf, ptr, ch) ==
  LET str == CString(buf, ptr)
  IN  IF \E k \in 1..Len(str) : str[k] = ch
      THEN ptr - 1 + CHOOSE k \in 1..Len(str) : str[k] = ch /\ \A j \in 1..(k - 1) : str[j] # ch
      ELSE NULL

\* strncmp(str, ptr, n) == 0 for a string str of n characters
strncmp_equal(str, buf, ptr, n) ==
  \A k \in 1..n : ptr + k - 1 <= Len(buf) /\ buf[ptr + k - 1] = str[k]

\* StringUtils::replace_no_expand on a text: every occurrence of from,
\* found from left to right, is replaced by to; the search goes on behind
\* the replacement
RECURSIVE replace_no_expand(_, _, _)
replace_no_expand(text, from, to) ==
  IF Len(text) < Len(from) THEN text
  ELSE IF SubSeq(text, 1, Len(from)) = from
       THEN to \o replace_no_expand(SubSeq(text, Len(from) + 1, Len(text)), from, to)
       ELSE <<Head(text)>> \o replace_no_expand(Tail(text), from, to)

\* line 88: replace_no_expand(manifest, "\r\n", "\n")
clean_line_ends(text) == replace_no_expand(text, <<CR, LF>>, <<LF>>)

\* line 91: replace_no_expand(manifest, "\n ", "")
clean_continuations(text) == replace_no_expand(text, <<LF, SP>>, <<>>)

\* line 113 with the tag looked for anywhere in the line
line_has_tag_anywhere(buf, line_start, line_end) ==
  \E q \in line_start..line_end : strncmp_equal(tag, buf, q, tag_len)

\* line 113: strncmp(tag, line_start, tag_len) == 0
line_has_tag(buf, line_start, line_end) == strncmp_equal(tag, buf, line_start, tag_len)

\* lines 71-96: read_manifest of a JAR whose manifest is mf.input (when it
\* has one)
read_manifest ==
  /\ mf.pc = "open"
  /\ IF ~mf.has_manifest
     THEN mf' = [mf EXCEPT !.pc = "done", !.manifest_size = 0, !.ret = NULL]
     ELSE LET text == IF mf.clean_text
                      THEN clean_continuations(clean_line_ends(mf.input))
                      ELSE mf.input
              manifest == text \o <<NUL>>
          IN  mf' = [mf EXCEPT !.pc = "read", !.manifest = manifest, !.text = text,
                               !.manifest_size = strlen(manifest, 1), !.ret = 1]
  /\ UNCHANGED <<call, statics, ext, cached_path_entries, vm>>

\* lines 98-103: get_class_path_attr is called with the manifest read
get_class_path_attr ==
  /\ mf.pc = "read"
  /\ mf' = [mf EXCEPT !.pc = "lines", !.found = NULL, !.line_start = 1, !.ret = NULL]
  /\ UNCHANGED <<call, statics, ext, cached_path_entries, vm>>

\* lines 107-128: one iteration of the loop over the lines, or the return
get_class_path_attr_line ==
  /\ mf.pc = "lines"
  /\ LET end == 1 + mf.manifest_size
         line_end == strchr(mf.manifest, mf.line_start, LF)
     IN  IF mf.line_start < end /\ line_end # NULL
         THEN IF line_has_tag(mf.manifest, mf.line_start, line_end)
              THEN mf' = [mf EXCEPT !.found = mf.line_start + tag_len,
                                    !.manifest[line_end] = NUL,
                                    !.line_start = line_end + 1]
              ELSE mf' = [mf EXCEPT !.line_start = line_end + 1]
         ELSE mf' = [mf EXCEPT !.pc = "done", !.ret = mf.found]
  /\ UNCHANGED <<call, statics, ext, cached_path_entries, vm>>

(***************************************************************************)
(* SpecManifest: the manifest of one JAR file is read, as it is or         *)
(* cleaned, and its Class-Path attribute is looked for.                    *)
(***************************************************************************)
ManifestPieces == {tag, <<"a">>, <<SP>>, <<LF>>, <<CR>>}

RECURSIVE Flatten(_)
Flatten(pieces) ==
  IF pieces = <<>> THEN <<>> ELSE Head(pieces) \o Flatten(Tail(pieces))

ManifestTexts == {Flatten(ps) : ps \in SeqsUpTo(ManifestPieces, 0, MaxPieces)}

InitManifest ==
  /\ call = [t \in Threads |-> InitCall(<<>>)]
  /\ statics = InitStatics
  /\ ext = InitExt
  /\ cached_path_entries = <<>>
  /\ vm = VmOf(TRUE, TRUE, "load")
  /\ \/ mf = [NoManifest EXCEPT !.pc = "open"]
     \/ \E text \in ManifestTexts, clean_text \in BOOLEAN :
          mf = [NoManifest EXCEPT !.pc = "open", !.has_manifest = TRUE,
                                  !.input = text, !.clean_text = clean_text]

NextManifest ==
  \/ read_manifest
  \/ get_class_path_attr
  \/ get_class_path_attr_line

SpecManifest == InitManifest /\ [][NextManifest]_vars

(***************************************************************************)
(* C23  Move-to-front cache: after find_classpath_entry_from_cache(path)   *)
(* has returned an entry that is not NULL, by a hit or by creating one,    *)
(* the first element of the cache is (path, that entry) and the relative   *)
(* order of all other elements is unchanged; any later lookup of the same  *)
(* path returns the same entry without creating a new one.                 *)
(***************************************************************************)
FindStep == vm'.last.op = "find_classpath_entry_from_cache"

\* the elements of the cache whose path is not path, in their order
WithoutPath(cache, path) ==
  LET Other(e) == e.path # path
  IN  SelectSeq(cache, Other)

Cached(cache, path) == \E i \in 1..Len(cache) : cache[i].path = path

C23_FindStep ==
  LET path == vm'.last.path
      ret == vm'.last.ret
  IN  (FindStep /\ ret # NULL)
        => /\ cached_path_entries' # <<>>
           /\ Head(cached_path_entries') = CachedClassPathEntry(path, ret)
           /\ Tail(cached_path_entries') = WithoutPath(cached_path_entries, path)
           /\ Cached(cached_path_entries, path)
                => /\ CachedClassPathEntry(path, ret) \in
                        {cached_path_entries[i] : i \in 1..Len(cached_path_entries)}
                   /\ vm'.entries_created = vm.entries_created

\* no path has been answered with two different entries
C23_SameEntry ==
  \A r1 \in vm.returned : \A r2 \in vm.returned : r1[1] = r2[1] => r1[2] = r2[2]

C23_MoveToFront == []C23_SameEntry /\ [][C23_FindStep]_vars

\* a lookup has found the entry created first behind two younger ones and
\* has moved it to the front
C23_Witness ==
  /\ vm.last.op = "find_classpath_entry_from_cache"
  /\ Len(cached_path_entries) = 3
  /\ vm.last.ret = 1
  /\ cached_path_entries[1] = CachedClassPathEntry(vm.last.path, 1)
  /\ cached_path_entries[2].entry = 3
  /\ cached_path_entries[3].entry = 2

(***************************************************************************)
(* C24  After any sequence of calls of find_classpath_entry_from_cache the *)
(* cache holds at most one element per distinct path string and never      *)
(* shrinks; a lookup that returns NULL (stat fails, or no entry can be     *)
(* created) leaves the contents and the order of the cache unchanged.      *)
(***************************************************************************)
C24_OnePerPath ==
  \A i \in 1..Len(cached_path_entries) : \A j \in 1..Len(cached_path_entries) :
    cached_path_entries[i].path = cached_path_entries[j].path => i = j

C24_CacheStep ==
  /\ Len(cached_path_entries') >= Len(cached_path_entries)
  /\ {cached_path_entries[i] : i \in 1..Len(cached_path_entries)}
       \subseteq {cached_path_entries'[i] : i \in 1..Len(cached_path_entries')}
  /\ (FindStep /\ vm'.last.ret = NULL) => cached_path_entries' = cached_path_entries

C24_CacheGrowsOnly == []C24_OnePerPath /\ [][C24_CacheStep]_vars

\* with two paths in the cache, a lookup of a third path whose file exists
\* has returned NULL because no entry could be created for it
C24_Witness ==
  /\ vm.last.op = "find_classpath_entry_from_cache"
  /\ vm.last.ret = NULL /\ vm.last.ok
  /\ Len(cached_path_entries) = 2
  /\ vm.entries_created < MaxEntries
  /\ ~Cached(cached_path_entries, vm.last.path)

(***************************************************************************)
(* C27  The flags _has_app_classes and _has_platform_classes are monotone  *)
(* over any sequence of calls of check and record_result: once set they    *)
(* are never cleared; check on a signed entry of the app class path during *)
(* dumping returns false and changes neither flag; and                     *)
(* finalize_shared_paths_misc_info pops the app path info exactly when     *)
(* UseAppCDS is on and no earlier call has set _has_app_classes.           *)
(***************************************************************************)
CheckStep == vm'.last.op = "check"
RecordStep == vm'.last.op = "record_result"
FinalizeStep == vm'.last.op = "finalize_shared_paths_misc_info"

\* the step is a call of check, during dumping, on a signed entry of the
\* app loader's part of the class path
ChecksSignedAppEntry ==
  /\ CheckStep
  /\ vm.DumpSharedSpaces
  /\ vm'.last.signed
  /\ vm'.last.classpath_index >= ext.app_paths_start_index

C27_Monotone ==
  /\ ext.has_app_classes => ext'.has_app_classes
  /\ ext.has_platform_classes => ext'.has_platform_classes

\* _has_app_classes is set by the calls that meet a class of the app loader
\* and by no other
C27_SetByCalls ==
  (ext'.has_app_classes /\ ~ext.has_app_classes)
    => \/ /\ CheckStep /\ vm'.last.ok /\ vm'.last.stream
          /\ vm'.last.classpath_index >= ext.app_paths_start_index
       \/ RecordStep /\ vm'.last.loader = "app"

C27_Finalize ==
  FinalizeStep
    => /\ vm'.misc_info.popped <=> (vm.UseAppCDS /\ ~ext.has_app_classes)
       /\ vm'.misc_info.popped
            => vm'.misc_info.paths = SubSeq(vm.misc_info.paths, 1, vm.misc_info.app_offset)
       /\ ~vm'.misc_info.popped => vm'.misc_info = vm.misc_info

C27_SignedSkipped ==
  ChecksSignedAppEntry => (~vm'.last.ok /\ ext' = ext)

\* the claim as it stands
C27_FlagsAsClaimed ==
  [][C27_Monotone /\ C27_SetByCalls /\ C27_Finalize /\ C27_SignedSkipped]_vars

\* check on a signed entry of the app class path during dumping returns
\* false when it is given a stream and true when the stream is NULL, and
\* changes neither flag; the rest as claimed
C27_SignedSkippedWithStream ==
  ChecksSignedAppEntry => ((vm'.last.ok <=> ~vm'.last.stream) /\ ext' = ext)

C27_Flags ==
  [][C27_Monotone /\ C27_SetByCalls /\ C27_Finalize /\ C27_SignedSkippedWithStream]_vars

\* during a dump with UseAppCDS, after a class of the platform loader was
\* recorded, check has refused a class from a signed entry of the app class
\* path: _has_platform_classes is still set, _has_app_classes still clear
C27_Witness ==
  /\ vm.DumpSharedSpaces /\ vm.UseAppCDS
  /\ vm.last.op = "check" /\ ~vm.last.ok
  /\ vm.last.stream /\ vm.last.signed
  /\ vm.last.classpath_index >= ext.app_paths_start_index
  /\ ext.has_platform_classes /\ ~ext.has_app_classes

(***************************************************************************)
(* C25  get_class_path_attr returns the value of the last line that starts *)
(* with "Class-Path: " among the lines of the manifest that end with a     *)
(* newline (of duplicates the last one is used), NUL-terminated at the end *)
(* of that line, and NULL when there is no such line; a last line that     *)
(* does not end with a newline is never considered.                        *)
(***************************************************************************)
\* the lines of a text that end with a newline, without the newline
RECURSIVE TerminatedLines(_)
TerminatedLines(text) ==
  IF \A k \in 1..Len(text) : text[k] # LF THEN <<>>
  ELSE LET k == CHOOSE k \in 1..Len(text) :
                  text[k] = LF /\ \A j \in 1..(k - 1) : text[j] # LF
       IN  <<SubSeq(text, 1, k - 1)>> \o TerminatedLines(SubSeq(text, k + 1, Len(text)))

StartsWithTag(line) == Len(line) >= tag_len /\ SubSeq(line, 1, tag_len) = tag

\* the Class-Path lines of a text
ClassPathLines(text) == SelectSeq(TerminatedLines(text), StartsWithTag)

C25_ClassPathAttr ==
  (mf.pc = "done" /\ mf.has_manifest)
    => LET lines == ClassPathLines(mf.text)
           last == lines[Len(lines)]
       IN  IF lines = <<>>
           THEN mf.ret = NULL
           ELSE /\ mf.ret # NULL
                /\ CString(mf.manifest, mf.ret) = SubSeq(last, tag_len + 1, Len(last))
                /\ mf.manifest[mf.ret + Len(last) - tag_len] = NUL

\* the attribute has been taken from the second of two Class-Path lines
\* with different values
C25_Witness ==
  /\ mf.pc = "done" /\ mf.has_manifest
  /\ Len(ClassPathLines(mf.text)) = 2
  /\ ClassPathLines(mf.text)[1] # ClassPathLines(mf.text)[2]
  /\ mf.ret # NULL

(***************************************************************************)
(* C26  read_manifest with clean_text returns a text in which every CR/LF  *)
(* and every lone CR has been replaced by LF and from which all line       *)
(* continuations have been removed (the result contains no LF followed by  *)
(* a space and no CR), and *manifest_size is the length of the returned    *)
(* text; when the JAR has no manifest it returns NULL with *manifest_size  *)
(* = 0.                                                                    *)
(***************************************************************************)
HasChar(text, ch) == \E k \in 1..Len(text) : text[k] = ch

HasContinuation(text) ==
  \E k \in 1..(Len(text) - 1) : text[k] = LF /\ text[k + 1] = SP

C26_CleanManifest ==
  /\ (mf.pc = "read" /\ mf.clean_text)
       => /\ ~HasChar(CString(mf.manifest, mf.ret), CR)
          /\ ~HasContinuation(CString(mf.manifest, mf.ret))
          /\ mf.manifest_size = Len(CString(mf.manifest, mf.ret))
  /\ (mf.pc = "done" /\ ~mf.has_manifest)
       => (mf.ret = NULL /\ mf.manifest_size = 0)

====
